---------------------------- MODULE Spec2Model ----------------------------
(***************************************************************************)
(* Model of the fisheye unwarp cache and its HTTP handlers                 *)
(* (src/app/analyzer.py), the view-set generator (src/camera_capture.py)   *)
(* and the filename parsers (src/app/analyzer.py, src/app/s3_service.py).  *)
(*                                                                         *)
(* Python strings are sequences of one-character strings, so that          *)
(* startswith, replace, slicing and len are computed as the code computes  *)
(* them.  Several handler invocations run as processes whose file-system   *)
(* operations interleave (several server workers share one data            *)
(* directory).                                                             *)
(***************************************************************************)
EXTENDS Integers, Sequences, FiniteSets, TLC

VARIABLES
    proc,       \* per process: the unwarp_images request it serves and the unwarp_image call in it
    files,      \* data_dir: relative path string -> content of the file
    dirs,       \* directories created under data_dir/unwarped, as relative path strings
    frames,     \* ftp_uploads_dir: image path -> whether cv2.imread decodes it
    faults,     \* generation and save failures injected so far
    analysis,   \* the analyze_images request served and its response
    fn_args,    \* arguments of the pure function applied (parsers, get_room_views)
    fn_ret,     \* what it returned
    config      \* the parameters unwarp_image generates views with, the source pixels, the C library

vars == <<proc, files, dirs, frames, faults, analysis, fn_args, fn_ret, config>>

\* Python's None, where a dict or a datetime is expected
None == [none |-> TRUE]

\* no match, where a string (a sequence) is expected
NoMatch == <<>>

(***************************************************************************)
(* Python string operations                                                *)
(***************************************************************************)
Digits == {"0", "1", "2", "3", "4", "5", "6", "7", "8", "9"}

\* int(c) of one decimal digit; int(' 5') = 5 makes the blank count as 0 in front
DigitVal(c) ==
    CASE c = "0" -> 0 [] c = "1" -> 1 [] c = "2" -> 2 [] c = "3" -> 3 [] c = "4" -> 4
      [] c = "5" -> 5 [] c = "6" -> 6 [] c = "7" -> 7 [] c = "8" -> 8 [] c = "9" -> 9
      [] OTHER -> 0

DigitChar(n) ==
    CASE n = 0 -> "0" [] n = 1 -> "1" [] n = 2 -> "2" [] n = 3 -> "3" [] n = 4 -> "4"
      [] n = 5 -> "5" [] n = 6 -> "6" [] n = 7 -> "7" [] n = 8 -> "8" [] OTHER -> "9"

\* s.startswith(prefix)
StartsWith(s, prefix) ==
    /\ Len(s) >= Len(prefix)
    /\ SubSeq(s, 1, Len(prefix)) = prefix

\* s.endswith(suffix)
EndsWith(s, suffix) ==
    /\ Len(s) >= Len(suffix)
    /\ SubSeq(s, Len(s) - Len(suffix) + 1, Len(s)) = suffix

\* s.replace(old, ''): every non-overlapping occurrence, scanning from the left
RECURSIVE Remove(_, _)
Remove(s, old) ==
    IF Len(s) < Len(old) THEN s
    ELSE IF SubSeq(s, 1, Len(old)) = old
         THEN Remove(SubSeq(s, Len(old) + 1, Len(s)), old)
         ELSE <<Head(s)>> \o Remove(Tail(s), old)

\* s[a:b] with Python's 0-based, end-exclusive, clamped slice
Slice(s, a, b) == SubSeq(s, a + 1, IF b > Len(s) THEN Len(s) ELSE b)

\* Path(p).name: what follows the last "/"
RECURSIVE BaseName(_)
BaseName(p) ==
    IF \E i \in 1..Len(p) : p[i] = "/"
    THEN BaseName(SubSeq(p, (CHOOSE i \in 1..Len(p) : p[i] = "/") + 1, Len(p)))
    ELSE p

\* '%02d' % n and '%04d' % n
Pad2(n) == <<DigitChar(n \div 10), DigitChar(n % 10)>>
Pad4(n) == <<DigitChar(n \div 1000), DigitChar((n \div 100) % 10)>> \o Pad2(n % 100)

(***************************************************************************)
(* datetime.strptime(s, '%Y%m%d%H%M%S')                                    *)
(*                                                                         *)
(* CPython compiles the format to the regular expression                   *)
(*   (\d\d\d\d)(1[0-2]|0[1-9]|[1-9])(3[01]|[12]\d|0[1-9]|[1-9]| [1-9])     *)
(*   (2[0-3]|[0-1]\d|\d)([0-5]\d|\d)(6[0-1]|[0-5]\d|\d)                    *)
(* takes its first match from the start of s, raises ValueError when the   *)
(* match does not end where s ends, and then builds datetime(...), which   *)
(* raises ValueError for a date or time out of range.                      *)
(***************************************************************************)
IsDigit(c) == c \in Digits

\* the two-character alternatives of each directive
Two(field, a, b) ==
    CASE field = "m" -> (a = "1" /\ b \in {"0", "1", "2"}) \/ (a = "0" /\ IsDigit(b) /\ b # "0")
      [] field = "d" -> \/ (a = "3" /\ b \in {"0", "1"})
                        \/ (a \in {"1", "2"} /\ IsDigit(b))
                        \/ (a = "0" /\ IsDigit(b) /\ b # "0")
                        \/ (a = " " /\ IsDigit(b) /\ b # "0")
      [] field = "H" -> (a = "2" /\ b \in {"0", "1", "2", "3"}) \/ (a \in {"0", "1"} /\ IsDigit(b))
      [] field = "M" -> a \in {"0", "1", "2", "3", "4", "5"} /\ IsDigit(b)
      [] field = "S" -> \/ (a = "6" /\ b \in {"0", "1"})
                        \/ (a \in {"0", "1", "2", "3", "4", "5"} /\ IsDigit(b))
      [] OTHER -> FALSE

\* the one-character alternative of each directive
One(field, a) ==
    CASE field \in {"m", "d"} -> IsDigit(a) /\ a # "0"
      [] field \in {"H", "M", "S"} -> IsDigit(a)
      [] OTHER -> FALSE

Directives == <<"m", "d", "H", "M", "S">>

\* The first match of directives k.. at position pos of s (1-based), as the sequence
\* of the values matched followed by the end position, or NoMatch.
RECURSIVE MatchFrom(_, _, _)
MatchFrom(s, pos, k) ==
    IF k > Len(Directives) THEN <<pos>>
    ELSE
      LET f == Directives[k]
          two == IF pos + 1 <= Len(s) /\ Two(f, s[pos], s[pos + 1])
                 THEN MatchFrom(s, pos + 2, k + 1) ELSE NoMatch
          one == IF pos <= Len(s) /\ One(f, s[pos])
                 THEN MatchFrom(s, pos + 1, k + 1) ELSE NoMatch
      IN IF two # NoMatch
         THEN <<10 * DigitVal(s[pos]) + DigitVal(s[pos + 1])>> \o two
         ELSE IF one # NoMatch THEN <<DigitVal(s[pos])>> \o one
         ELSE NoMatch

IsLeap(y) == (y % 4 = 0 /\ y % 100 # 0) \/ y % 400 = 0

DaysInMonth(y, m) ==
    IF m = 2 THEN (IF IsLeap(y) THEN 29 ELSE 28)
    ELSE IF m \in {4, 6, 9, 11} THEN 30 ELSE 31

\* datetime(year, month, day, hour, minute, second) does not raise
ValidDateTime(y, m, d, H, M, S) ==
    /\ y >= 1 /\ y <= 9999
    /\ m >= 1 /\ m <= 12
    /\ d >= 1 /\ d <= DaysInMonth(y, m)
    /\ H >= 0 /\ H <= 23
    /\ M >= 0 /\ M <= 59
    /\ S >= 0 /\ S <= 59

\* the datetime, or None where strptime raises ValueError
strptime(s) ==
    IF Len(s) < 4 \/ \E i \in 1..4 : ~IsDigit(s[i]) THEN None
    ELSE
      LET y == 1000 * DigitVal(s[1]) + 100 * DigitVal(s[2]) + 10 * DigitVal(s[3]) + DigitVal(s[4])
          m == MatchFrom(s, 5, 1)
      IN IF m = NoMatch THEN None
         ELSE IF m[6] # Len(s) + 1 THEN None
         ELSE IF ~ValidDateTime(y, m[1], m[2], m[3], m[4], m[5]) THEN None
         ELSE [year |-> y, month |-> m[1], day |-> m[2],
               hour |-> m[3], minute |-> m[4], second |-> m[5]]

\* str(n) of an integer 0 <= n <= 9999
Str(n) ==
    IF n >= 1000 THEN Pad4(n)
    ELSE IF n >= 100 THEN <<DigitChar(n \div 100)>> \o Pad2(n % 100)
    ELSE IF n >= 10 THEN Pad2(n)
    ELSE <<DigitChar(n)>>

\* dt.strftime('%Y-%m-%d') and dt.strftime('%H:%M:%S').  strftime hands %Y to the C
\* library: glibc prints the year without padding ('999-01-05' for the year 999, as
\* CPython 3.11 on Linux does), other libraries pad it to four digits.
FormatDate(dt) ==
    (IF config.year_padded THEN Pad4(dt.year) ELSE Str(dt.year))
        \o <<"-">> \o Pad2(dt.month) \o <<"-">> \o Pad2(dt.day)
FormatTime(dt) == Pad2(dt.hour) \o <<":">> \o Pad2(dt.minute) \o <<":">> \o Pad2(dt.second)

(***************************************************************************)
(* The filename parsers                                                    *)
(***************************************************************************)
Reolink_00_ == <<"R", "e", "o", "l", "i", "n", "k", "_", "0", "0", "_">>
DotJpg == <<".", "j", "p", "g">>
DotMp4 == <<".", "m", "p", "4">>
DotTxt == <<".", "t", "x", "t">>

ParsedName(ts, dt) ==
    [timestamp |-> ts, datetime |-> dt, date |-> FormatDate(dt), time |-> FormatTime(dt)]

\* analyzer.py parse_ftp_filename: used by the local listing and by unwarp_image
parse_ftp_filename(filename) ==
    IF ~StartsWith(filename, Reolink_00_) THEN None
    ELSE
      LET timestamp_str == Remove(Remove(Remove(Remove(filename, Reolink_00_), DotJpg), DotMp4), DotTxt)
      IN IF Len(timestamp_str) # 14 THEN None
         ELSE LET dt == strptime(timestamp_str)
              IN IF dt = None THEN None ELSE ParsedName(timestamp_str, dt)

\* the number of leading digits of s: what \d+ consumes (no digit can be given back
\* to the "_" that follows)
RECURSIVE LeadingDigits(_)
LeadingDigits(s) ==
    IF s # <<>> /\ IsDigit(Head(s)) THEN 1 + LeadingDigits(Tail(s)) ELSE 0

\* re.match(r"[Rr]eolink_\d+_(\d{14})\.jpg", filename): group 1, or NoMatch
MatchImageName(filename) ==
    LET eolink_ == <<"e", "o", "l", "i", "n", "k", "_">>
    IN IF ~(Len(filename) >= 1 /\ Head(filename) \in {"R", "r"} /\ StartsWith(Tail(filename), eolink_))
       THEN NoMatch
       ELSE
         LET rest == SubSeq(filename, 9, Len(filename))
             n == LeadingDigits(rest)
             after == SubSeq(rest, n + 1, Len(rest))
         IN IF n < 1 \/ after = <<>> \/ Head(after) # "_" THEN NoMatch
            ELSE LET tail == Tail(after)
                 IN IF /\ Len(tail) >= 18
                       /\ \A i \in 1..14 : IsDigit(tail[i])
                       /\ SubSeq(tail, 15, 18) = DotJpg
                    THEN SubSeq(tail, 1, 14)
                    ELSE NoMatch

\* s3_service.py parse_image_filename: used by the S3 listings
parse_image_filename(filename) ==
    LET timestamp_str == MatchImageName(filename)
    IN IF timestamp_str = NoMatch THEN None
       ELSE LET dt == strptime(timestamp_str)
            IN IF dt = None THEN None ELSE ParsedName(timestamp_str, dt)

(***************************************************************************)
(* The view-set generator (camera_capture.py)                              *)
(*                                                                         *)
(* An image is the record of what determines its pixels: the frame it is   *)
(* resampled from and the parameters of the resampling.                    *)
(***************************************************************************)
\* fisheye_to_perspective_fast: the remap of img under create_perspective_map
fisheye_to_perspective_fast(img, fov, theta, phi, output_size) ==
    [kind |-> "perspective", src |-> img, channels |-> img.channels, fov |-> fov, theta |-> theta, phi |-> phi,
     width |-> output_size[1], height |-> output_size[2]]

\* extract_center_view: the polar centre crop, masked outside the unit disk
extract_center_view(img, radius_fraction, output_size) ==
    [kind |-> "center", src |-> img, channels |-> img.channels,
     radius_fraction |-> radius_fraction,
     width |-> output_size[1], height |-> output_size[2]]

\* the view names
North == <<"N", "o", "r", "t", "h">>
East == <<"E", "a", "s", "t">>
South == <<"S", "o", "u", "t", "h">>
West == <<"W", "e", "s", "t">>
Below == <<"B", "e", "l", "o", "w">>

\* a directions dict that lacks West (a faulty variant, to test C9)
DirectionsWithoutWest(view_angle) ==
    << <<North, 0, view_angle>>, <<East, 90, view_angle>>,
       <<South, 180, view_angle>> >>

\* the directions dict of get_room_views, in insertion order
Directions(view_angle) ==
    << <<North, 0, view_angle>>, <<East, 90, view_angle>>,
       <<South, 180, view_angle>>, <<West, 270, view_angle>> >>

\* get_room_views handing output_size as it is to extract_center_view (a faulty
\* variant, to test C20)
get_room_views_below_as_cardinal(img, fov, output_size, view_angle, below_fraction) ==
    [i \in 1..Len(Directions(view_angle)) |->
        LET e == Directions(view_angle)[i]
        IN [name |-> e[1],
            image |-> fisheye_to_perspective_fast(img, fov, e[2], e[3], output_size)]]
    \o << [name |-> Below,
           image |-> extract_center_view(img, below_fraction, output_size)] >>

\* get_room_views: the views dict, as the sequence of its items in insertion order
get_room_views(img, fov, output_size, view_angle, below_fraction) ==
    [i \in 1..Len(Directions(view_angle)) |->
        LET e == Directions(view_angle)[i]
        IN [name |-> e[1],
            image |-> fisheye_to_perspective_fast(img, fov, e[2], e[3], output_size)]]
    \o << [name |-> Below,
           image |-> extract_center_view(img, below_fraction, <<output_size[1], output_size[1]>>)] >>

\* dict.keys() and dict[key] of a dict held as its item sequence
Keys(d) == {d[i].name : i \in 1..Len(d)}
Lookup(d, key) == d[CHOOSE i \in 1..Len(d) : d[i].name = key].image

(***************************************************************************)
(* Paths (pathlib): a path is the sequence of its components               *)
(***************************************************************************)
\* constants.py: data_dir, as a path below root_dir
data_dir == << <<"d", "a", "t", "a">> >>

\* analyzer.py: unwarped_dir = data_dir / "unwarped"
unwarped_dir == data_dir \o << <<"u", "n", "w", "a", "r", "p", "e", "d">> >>

\* constants.py: ftp_uploads_dir = data_dir / "ftp_uploads"
ftp_uploads_dir == data_dir \o << <<"f", "t", "p", "_", "u", "p", "l", "o", "a", "d", "s">> >>

\* the components of a relative path string: str.split("/") without empty parts
RECURSIVE SplitPath(_)
SplitPath(s) ==
    IF s = <<>> THEN <<>>
    ELSE IF \E i \in 1..Len(s) : s[i] = "/"
         THEN LET i == CHOOSE j \in 1..Len(s) : s[j] = "/" /\ \A l \in 1..(j - 1) : s[l] # "/"
                  first == SubSeq(s, 1, i - 1)
              IN (IF first = <<>> THEN <<>> ELSE <<first>>) \o SplitPath(SubSeq(s, i + 1, Len(s)))
         ELSE <<s>>

\* base / "a/b": the components of the right operand appended
JoinPath(base, s) == base \o SplitPath(s)

\* str(path): the components joined with "/"
RECURSIVE PathStr(_)
PathStr(path) ==
    IF path = <<>> THEN <<>>
    ELSE IF Len(path) = 1 THEN path[1]
    ELSE path[1] \o <<"/">> \o PathStr(Tail(path))

\* path.relative_to(base): base is a prefix of every path it is applied to here
relative_to(path, base) == SubSeq(path, Len(base) + 1, Len(path))

\* path.name
PathName(path) == path[Len(path)]

\* every directory mkdir(parents=True) creates for dir below data_dir
MkdirParents(dir) == { SubSeq(dir, 1, n) : n \in (Len(data_dir) + 1)..Len(dir) }

(***************************************************************************)
(* The unwarp cache (analyzer.py)                                          *)
(***************************************************************************)
\* VIEW_MAP, as its items in insertion order
VIEW_MAP ==
    << [key |-> "N", value |-> North], [key |-> "S", value |-> South],
       [key |-> "E", value |-> East], [key |-> "W", value |-> West],
       [key |-> "B", value |-> Below] >>

\* VIEW_MAP.keys()
ViewCodes == {VIEW_MAP[i].key : i \in 1..Len(VIEW_MAP)}

\* c.upper() of one character
Upper(c) ==
    LET lower == <<"a", "b", "c", "d", "e", "f", "g", "h", "i", "j", "k", "l", "m", "n", "o", "p", "q", "r", "s", "t", "u", "v", "w", "x", "y", "z">>
        upper == <<"A", "B", "C", "D", "E", "F", "G", "H", "I", "J", "K", "L", "M", "N", "O", "P", "Q", "R", "S", "T", "U", "V", "W", "X", "Y", "Z">>
    IN IF \E i \in 1..26 : lower[i] = c
       THEN upper[CHOOSE i \in 1..26 : lower[i] = c]
       ELSE c

\* the directory get_unwarped_path creates
unwarp_subdir(timestamp) ==
    unwarped_dir \o <<Slice(timestamp, 0, 4), Slice(timestamp, 4, 6), Slice(timestamp, 6, 8)>>

\* a path scheme without the day directory (a faulty variant, to test C12)
get_unwarped_path_by_month(timestamp, direction) ==
    unwarped_dir \o <<Slice(timestamp, 0, 4), Slice(timestamp, 4, 6)>>
                 \o <<timestamp \o <<"_", direction>> \o DotJpg>>

\* get_unwarped_path: the path returned
get_unwarped_path(timestamp, direction) ==
    unwarp_subdir(timestamp) \o <<timestamp \o <<"_", direction>> \o DotJpg>>

\* cv2.cvtColor(img, COLOR_BGR2RGB) and COLOR_RGB2BGR: the channel order reversed
cvtColor(img) ==
    [img EXCEPT !.channels = IF @ = "BGR" THEN "RGB" ELSE "BGR"]

\* cv2.imread of a decodable frame
imread(full_path) == [frame |-> full_path, channels |-> "BGR", pixels |-> config.pixels]

\* the JPEG save_image writes for a view: the view in BGR order
EncodedView(view_img) == cvtColor(view_img)

\* what a file holds while it is open for writing, and once it is written
\* (writer: the process whose open truncated it last)
Torn(content, writer) == [image |-> content, complete |-> FALSE, writer |-> writer]
Whole(content, writer) == [image |-> content, complete |-> TRUE, writer |-> writer]

(***************************************************************************)
(* Applying the pure functions to inputs drawn from bounded sets           *)
(***************************************************************************)
Idle == [fn |-> "none"]

\* the parameters in effect: fov and output_size as unwarp_image passes them, view_angle
\* and below_fraction (in hundredths) as get_room_views defaults them, the version of
\* the pixels the source frames hold, and whether the C library's strftime pads the year
DefaultConfig ==
    [fov |-> 90, output_size |-> <<1080, 810>>, view_angle |-> 45, below_fraction |-> 60,
     pixels |-> 1, year_padded |-> FALSE]

\* file names built around the timestamp fields, the valid and the invalid ones
NamePrefixes ==
    { Reolink_00_,
      <<"r", "e", "o", "l", "i", "n", "k", "_", "0", "0", "_">>,
      <<"R", "e", "o", "l", "i", "n", "k", "_", "0", "1", "_">>,
      <<"R", "e", "o", "l", "i", "n", "k", "_">>,
      <<"R", "E", "O", "L", "I", "N", "K", "_", "0", "0", "_">> }
NameYears == { <<"2", "0", "2", "6">>, <<"2", "0", "2", "4">>, <<"0", "0", "0", "0">> }
NameMonths == { <<"0", "1">>, <<"0", "2">>, <<"1", "3">>, <<"1">> }
NameDays == { <<"2", "6">>, <<"2", "9">>, <<"3", "0">>, <<" ", "5">>, <<"0", "0">> }
NameHours == { <<"2", "3">>, <<"2", "4">> }
NameMinutes == { <<"3", "8">>, <<"6", "0">> }
NameSeconds == { <<"1", "1">>, <<"6", "0">>, <<"1", "a">>, <<"1", "1", "0">> }
NameExts == { DotJpg, DotMp4, <<>>, DotJpg \o <<".", "b", "a", "k">> }

FileNames ==
    { p \o y \o m \o d \o H \o M \o S \o x :
        p \in NamePrefixes, y \in NameYears, m \in NameMonths, d \in NameDays,
        H \in NameHours, M \in NameMinutes, S \in NameSeconds, x \in NameExts }

\* the parameters get_room_views is called with
Fovs == {60, 90, 120}
OutputSizes == { <<1080, 810>>, <<800, 600>>, <<600, 600>> }
ViewAngles == {0, 30, 45, 60}
BelowFractions == {40, 60, 100}     \* radius_fraction in hundredths

InitPure ==
    /\ proc = [p \in {} |-> 0]
    /\ files = <<>>
    /\ dirs = {}
    /\ frames = <<>>
    /\ faults = 0
    /\ analysis = Idle
    /\ fn_ret = Idle
    /\ config = DefaultConfig

InitParse ==
    /\ InitPure
    /\ \E filename \in FileNames : fn_args = [fn |-> "parse", filename |-> filename]

\* both parsers applied to the file name
ApplyParsers ==
    /\ fn_args.fn = "parse"
    /\ fn_ret = Idle
    /\ fn_ret' = [fn |-> "parse",
                  ftp |-> parse_ftp_filename(fn_args.filename),
                  s3 |-> parse_image_filename(fn_args.filename)]
    /\ UNCHANGED <<proc, files, dirs, frames, faults, analysis, fn_args, config>>

NextParse == ApplyParsers

SpecParse == InitParse /\ [][NextParse]_vars

InitViews ==
    /\ InitPure
    /\ \E fov \in Fovs, output_size \in OutputSizes, view_angle \in ViewAngles,
          below_fraction \in BelowFractions :
          fn_args = [fn |-> "get_room_views",
                     img |-> [frame |-> <<"f">>, channels |-> "RGB"], fov |-> fov,
                     output_size |-> output_size, view_angle |-> view_angle,
                     below_fraction |-> below_fraction]

ApplyGetRoomViews ==
    /\ fn_args.fn = "get_room_views"
    /\ fn_ret = Idle
    /\ fn_ret' = [fn |-> "get_room_views",
                  views |-> get_room_views(fn_args.img, fn_args.fov, fn_args.output_size,
                                           fn_args.view_angle, fn_args.below_fraction)]
    /\ UNCHANGED <<proc, files, dirs, frames, faults, analysis, fn_args, config>>

NextViews == ApplyGetRoomViews

SpecViews == InitViews /\ [][NextViews]_vars

(***************************************************************************)
(* Bounds and inputs of the handler model                                  *)
(*                                                                         *)
(* Beside what the code holds (timestamp, unwarped_paths, all_exist, the   *)
(* loop index k, views), a call records what it did, for the properties to *)
(* read: hit_at_call (all five files existed when it was entered), found   *)
(* (codes whose file its check found), n_imread, n_get_room_views, saved   *)
(* (codes save_image was applied to), overwrote (codes whose file existed  *)
(* when save_image opened it), written (codes cv2.imwrite wrote),          *)
(* save_failed (a cv2.imwrite returned False), outcome and ret.            *)
(***************************************************************************)
NumProcs == 2       \* handler invocations that may overlap
MaxPaths == 2       \* image paths over all the requests served
MaxFaults == 1      \* generation or save failures the environment injects

Procs == 1..NumProcs

\* frames below ftp_uploads_dir: two decodable ones of different days, one whose
\* name parse_ftp_filename rejects, one whose upload is incomplete (imread gives None)
FrameA == <<"2", "0", "2", "6", "/", "0", "1", "/", "2", "6", "/", "R", "e", "o", "l", "i", "n", "k", "_", "0", "0", "_", "2", "0", "2", "6", "0", "1", "2", "6", "2", "3", "3", "8", "1", "1", ".", "j", "p", "g">>
FrameB == <<"2", "0", "2", "6", "/", "0", "1", "/", "2", "7", "/", "R", "e", "o", "l", "i", "n", "k", "_", "0", "0", "_", "2", "0", "2", "6", "0", "1", "2", "7", "0", "0", "0", "0", "0", "0", ".", "j", "p", "g">>
FrameLower == <<"2", "0", "2", "6", "/", "0", "1", "/", "2", "6", "/", "r", "e", "o", "l", "i", "n", "k", "_", "0", "0", "_", "2", "0", "2", "6", "0", "1", "2", "6", "2", "3", "3", "8", "1", "1", ".", "j", "p", "g">>
FrameTorn == <<"2", "0", "2", "6", "/", "0", "1", "/", "2", "7", "/", "R", "e", "o", "l", "i", "n", "k", "_", "0", "0", "_", "2", "0", "2", "6", "0", "1", "2", "7", "0", "0", "0", "5", "0", "0", ".", "j", "p", "g">>

ImagePaths == {FrameA, FrameB, FrameLower, FrameTorn}

\* UnwarpRequest.image_paths
Requests == UNION { [1..n -> ImagePaths] : n \in 1..MaxPaths }

NoCall ==
    [outcome |-> "none", image_path |-> <<>>, timestamp |-> <<>>, k |-> 0,
     all_exist |-> TRUE, unwarped_paths |-> <<>>, views |-> <<>>, ret |-> <<>>,
     hit_at_call |-> FALSE, n_imread |-> 0, n_get_room_views |-> 0,
     found |-> {}, saved |-> {}, overwrote |-> {}, written |-> {}, save_failed |-> FALSE,
     config |-> DefaultConfig]

NoResponse == [status_code |-> 0]

IdleProc ==
    [pc |-> "idle", image_paths |-> <<>>, i |-> 0, results |-> <<>>,
     response |-> NoResponse, call |-> NoCall]

Init ==
    /\ proc = [p \in Procs |-> IdleProc]
    /\ files = <<>>
    /\ dirs = {unwarped_dir, data_dir \o << <<"r", "e", "s", "u", "l", "t", "s">> >>}
    /\ frames = [ip \in ImagePaths |-> ip # FrameTorn]
    /\ faults = 0
    /\ analysis = Idle
    /\ fn_args = Idle
    /\ fn_ret = Idle
    /\ config = DefaultConfig

exists(path) == path \in DOMAIN files

\* every cached view file of the timestamp exists
AllViewsExist(timestamp) ==
    \A d \in ViewCodes : exists(get_unwarped_path(timestamp, d))

\* image paths in the requests received so far
RECURSIVE PathsReceived(_)
PathsReceived(ps) ==
    IF ps = {} THEN 0
    ELSE LET p == CHOOSE q \in ps : TRUE
         IN Len(proc[p].image_paths) + PathsReceived(ps \ {p})

(***************************************************************************)
(* unwarp_images: the batch handler around unwarp_image                    *)
(***************************************************************************)
\* unwarp_images receives a request and enters its loop
Receive(p) ==
    /\ proc[p].pc = "idle"
    /\ \E image_paths \in Requests :
          /\ Len(image_paths) + PathsReceived(Procs) <= MaxPaths
          /\ proc' = [proc EXCEPT ![p] =
                         [IdleProc EXCEPT !.pc = "call", !.image_paths = image_paths, !.i = 1]]
    /\ UNCHANGED <<files, dirs, frames, faults, analysis, fn_args, fn_ret, config>>

\* an exception leaves unwarp_image and the loop: except Exception -> HTTPException(500)
Raise(r, detail) ==
    [r EXCEPT !.pc = "done",
              !.call.outcome = "raised",
              !.response = [status_code |-> 500, detail |-> detail]]

\* unwarp_image returns ret: the result is stored under the timestamp parsed again from
\* the path, and the loop goes on or the handler answers
Return(r, ret) ==
    LET parsed == parse_ftp_filename(BaseName(r.image_paths[r.i]))
        results == IF parsed # None THEN (parsed.timestamp :> ret) @@ r.results ELSE r.results
        returned == [r EXCEPT !.call.outcome = "returned", !.call.ret = ret, !.results = results]
    IN IF r.i < Len(r.image_paths)
       THEN [returned EXCEPT !.pc = "call", !.i = r.i + 1]
       ELSE [returned EXCEPT !.pc = "done",
                             !.response = [status_code |-> 200, unwarped |-> results]]

\* the dict unwarp_image returns
RelativePaths(unwarped_paths) ==
    [d \in DOMAIN unwarped_paths |-> PathStr(relative_to(unwarped_paths[d], data_dir))]

\* an entry of unwarp_image that starts with all_exist = False, so that the check
\* never finds the cache complete (a faulty variant, to test C1)
CallAllExistFalse(p) ==
    LET r == proc[p]
        image_path == r.image_paths[r.i]
        filename == PathName(JoinPath(ftp_uploads_dir, image_path))
        parsed == parse_ftp_filename(filename)
    IN /\ r.pc = "call"
       /\ proc' = [proc EXCEPT ![p] =
            IF parsed = None
            THEN Raise([r EXCEPT !.call = [NoCall EXCEPT !.image_path = image_path]],
                       [error |-> "ValueError", message |-> "Invalid filename format", what |-> filename])
            ELSE [r EXCEPT !.pc = "check",
                           !.call = [NoCall EXCEPT !.outcome = "running",
                                                   !.image_path = image_path,
                                                   !.timestamp = parsed.timestamp,
                                                   !.k = 1,
                                                   !.all_exist = FALSE,
                                                   !.config = config,
                                                   !.hit_at_call = AllViewsExist(parsed.timestamp)]]]
       /\ UNCHANGED <<files, dirs, frames, faults, analysis, fn_args, fn_ret, config>>

\* unwarp_image is entered: the file name is parsed
Call(p) ==
    LET r == proc[p]
        image_path == r.image_paths[r.i]
        filename == PathName(JoinPath(ftp_uploads_dir, image_path))
        parsed == parse_ftp_filename(filename)
    IN /\ r.pc = "call"
       /\ proc' = [proc EXCEPT ![p] =
            IF parsed = None
            THEN Raise([r EXCEPT !.call = [NoCall EXCEPT !.image_path = image_path]],
                       [error |-> "ValueError", message |-> "Invalid filename format", what |-> filename])
            ELSE [r EXCEPT !.pc = "check",
                           !.call = [NoCall EXCEPT !.outcome = "running",
                                                   !.image_path = image_path,
                                                   !.timestamp = parsed.timestamp,
                                                   !.k = 1,
                                                   !.config = config,
                                                   !.hit_at_call = AllViewsExist(parsed.timestamp)]]]
       /\ UNCHANGED <<files, dirs, frames, faults, analysis, fn_args, fn_ret, config>>

\* an existence loop that leaves the regeneration to another call that is regenerating
\* the views of the same timestamp and returns the paths, as a lock or an in-flight
\* table on the cache key would have it (a faulty variant, to test C22)
CheckShared(p) ==
    LET r == proc[p]
        c == r.call
        direction == VIEW_MAP[c.k].key
        unwarp_path == get_unwarped_path(c.timestamp, direction)
        unwarped_paths == (direction :> unwarp_path) @@ c.unwarped_paths
        all_exist == c.all_exist /\ exists(unwarp_path)
        checked == [r EXCEPT !.call.unwarped_paths = unwarped_paths,
                             !.call.all_exist = all_exist,
                             !.call.found = IF exists(unwarp_path) THEN @ \union {direction} ELSE @]
        in_flight == \E q \in Procs \ {p} :
                        /\ proc[q].pc \in {"load", "generate", "save", "write"}
                        /\ proc[q].call.timestamp = c.timestamp
    IN /\ r.pc = "check"
       /\ dirs' = dirs \union MkdirParents(unwarp_subdir(c.timestamp))
       /\ proc' = [proc EXCEPT ![p] =
            IF c.k < Len(VIEW_MAP) THEN [checked EXCEPT !.call.k = c.k + 1]
            ELSE IF all_exist \/ in_flight THEN Return(checked, RelativePaths(unwarped_paths))
            ELSE [checked EXCEPT !.pc = "load"]]
       /\ UNCHANGED <<files, frames, faults, analysis, fn_args, fn_ret, config>>

\* an existence loop without the early return: the call goes on to load the frame
\* although every file was found (a faulty variant, to test C3)
CheckNeverHits(p) ==
    LET r == proc[p]
        c == r.call
        direction == VIEW_MAP[c.k].key
        unwarp_path == get_unwarped_path(c.timestamp, direction)
        unwarped_paths == (direction :> unwarp_path) @@ c.unwarped_paths
        all_exist == c.all_exist /\ exists(unwarp_path)
        checked == [r EXCEPT !.call.unwarped_paths = unwarped_paths,
                             !.call.all_exist = all_exist,
                             !.call.found = IF exists(unwarp_path) THEN @ \union {direction} ELSE @]
    IN /\ r.pc = "check"
       /\ dirs' = dirs \union MkdirParents(unwarp_subdir(c.timestamp))
       /\ proc' = [proc EXCEPT ![p] =
            IF c.k < Len(VIEW_MAP) THEN [checked EXCEPT !.call.k = c.k + 1]
            ELSE [checked EXCEPT !.pc = "load"]]
       /\ UNCHANGED <<files, frames, faults, analysis, fn_args, fn_ret, config>>

\* an existence loop that takes a file for cached only when it holds the view the
\* parameters and pixels in effect give (a faulty variant, to test C19)
CheckValidating(p) ==
    LET r == proc[p]
        c == r.call
        direction == VIEW_MAP[c.k].key
        unwarp_path == get_unwarped_path(c.timestamp, direction)
        unwarped_paths == (direction :> unwarp_path) @@ c.unwarped_paths
        views == get_room_views(cvtColor(imread(JoinPath(ftp_uploads_dir, c.image_path))),
                                config.fov, config.output_size,
                                config.view_angle, config.below_fraction)
        all_exist == /\ c.all_exist
                     /\ exists(unwarp_path)
                     /\ files[unwarp_path].image = EncodedView(Lookup(views, VIEW_MAP[c.k].value))
        checked == [r EXCEPT !.call.unwarped_paths = unwarped_paths,
                             !.call.all_exist = all_exist,
                             !.call.found = IF exists(unwarp_path) THEN @ \union {direction} ELSE @]
    IN /\ r.pc = "check"
       /\ dirs' = dirs \union MkdirParents(unwarp_subdir(c.timestamp))
       /\ proc' = [proc EXCEPT ![p] =
            IF c.k < Len(VIEW_MAP) THEN [checked EXCEPT !.call.k = c.k + 1]
            ELSE IF all_exist THEN Return(checked, RelativePaths(unwarped_paths))
            ELSE [checked EXCEPT !.pc = "load"]]
       /\ UNCHANGED <<files, frames, faults, analysis, fn_args, fn_ret, config>>

\* one turn of the existence loop; after the last one, the cached paths are returned
\* or the call goes on to load the frame
Check(p) ==
    LET r == proc[p]
        c == r.call
        direction == VIEW_MAP[c.k].key
        unwarp_path == get_unwarped_path(c.timestamp, direction)
        unwarped_paths == (direction :> unwarp_path) @@ c.unwarped_paths
        all_exist == c.all_exist /\ exists(unwarp_path)
        checked == [r EXCEPT !.call.unwarped_paths = unwarped_paths,
                             !.call.all_exist = all_exist,
                             !.call.found = IF exists(unwarp_path) THEN @ \union {direction} ELSE @]
    IN /\ r.pc = "check"
       /\ dirs' = dirs \union MkdirParents(unwarp_subdir(c.timestamp))
       /\ proc' = [proc EXCEPT ![p] =
            IF c.k < Len(VIEW_MAP) THEN [checked EXCEPT !.call.k = c.k + 1]
            ELSE IF all_exist THEN Return(checked, RelativePaths(unwarped_paths))
            ELSE [checked EXCEPT !.pc = "load"]]
       /\ UNCHANGED <<files, frames, faults, analysis, fn_args, fn_ret, config>>

\* a load without the check of cv2.imread's result (a faulty variant, to test C14)
LoadUnchecked(p) ==
    LET r == proc[p]
    IN /\ r.pc = "load"
       /\ proc' = [proc EXCEPT ![p] = [r EXCEPT !.pc = "generate", !.call.n_imread = @ + 1]]
       /\ UNCHANGED <<files, dirs, frames, faults, analysis, fn_args, fn_ret, config>>

\* cv2.imread and the check of its result
Load(p) ==
    LET r == proc[p]
        full_path == JoinPath(ftp_uploads_dir, r.call.image_path)
    IN /\ r.pc = "load"
       /\ proc' = [proc EXCEPT ![p] =
            IF ~frames[r.call.image_path]
            THEN Raise([r EXCEPT !.call.n_imread = @ + 1],
                       [error |-> "ValueError", message |-> "Failed to load image",
                        what |-> PathStr(full_path)])
            ELSE [r EXCEPT !.pc = "generate", !.call.n_imread = @ + 1]]
       /\ UNCHANGED <<files, dirs, frames, faults, analysis, fn_args, fn_ret, config>>

\* cvtColor and get_room_views(img_rgb, fov=90, output_size=(1080, 810))
Generate(p) ==
    LET r == proc[p]
        img == imread(JoinPath(ftp_uploads_dir, r.call.image_path))
        img_rgb == cvtColor(img)
        views == get_room_views(img_rgb, config.fov, config.output_size,
                                config.view_angle, config.below_fraction)
    IN /\ r.pc = "generate"
       /\ proc' = [proc EXCEPT ![p] =
            [r EXCEPT !.pc = "save", !.call.views = views, !.call.k = 1,
                      !.call.n_get_room_views = @ + 1]]
       /\ UNCHANGED <<files, dirs, frames, faults, analysis, fn_args, fn_ret, config>>

\* get_room_views raises (a resampling error, out of memory)
GenerateFails(p) ==
    LET r == proc[p]
    IN /\ r.pc = "generate"
       /\ faults < MaxFaults
       /\ faults' = faults + 1
       /\ proc' = [proc EXCEPT ![p] =
            Raise([r EXCEPT !.call.n_get_room_views = @ + 1],
                  [error |-> "Exception", message |-> "get_room_views", what |-> <<>>])]
       /\ UNCHANGED <<files, dirs, frames, analysis, fn_args, fn_ret, config>>

\* the view of this turn of the save loop, its code and its path
SaveView(c) == c.views[c.k]
short_name(c) == Upper(SaveView(c).name[1])
\* a save path taken from the paths of another frame's timestamp, as a dict of paths
\* kept across calls would give (a faulty variant, to test C15)
SavePathStale(c) ==
    get_unwarped_path(parse_ftp_filename(BaseName(FrameA)).timestamp, short_name(c))
SavePath(c) == c.unwarped_paths[short_name(c)]

\* the save loop moves on, or unwarp_image returns after the last view
AfterSave(r) ==
    IF r.call.k < Len(r.call.views) THEN [r EXCEPT !.pc = "save", !.call.k = @ + 1]
    ELSE Return(r, RelativePaths(r.call.unwarped_paths))

\* save_image: cv2.imwrite opens the file for writing, which creates or truncates it
SaveOpen(p) ==
    LET r == proc[p]
        c == r.call
    IN /\ r.pc = "save"
       /\ files' = (SavePath(c) :> Torn(EncodedView(SaveView(c).image), p)) @@ files
       /\ proc' = [proc EXCEPT ![p] =
            [r EXCEPT !.pc = "write",
                      !.call.saved = @ \union {short_name(c)},
                      !.call.overwrote = IF exists(SavePath(c)) THEN @ \union {short_name(c)} ELSE @]]
       /\ UNCHANGED <<dirs, frames, faults, analysis, fn_args, fn_ret, config>>

\* save_image: cv2.imwrite has written the file and returns True.  When another writer
\* truncated the file after this one opened it, what this one wrote before is lost and
\* the file is whole or not, as the timing has it.
SaveFinish(p) ==
    LET r == proc[p]
        c == r.call
        mine == files[SavePath(c)].writer = p
    IN /\ r.pc = "write"
       /\ \E complete \in (IF mine THEN {TRUE} ELSE BOOLEAN) :
             files' = [files EXCEPT ![SavePath(c)] =
                          IF complete THEN Whole(EncodedView(SaveView(c).image), @.writer)
                          ELSE @]
       /\ proc' = [proc EXCEPT ![p] =
            AfterSave([r EXCEPT !.call.written = @ \union {short_name(c)}])]
       /\ UNCHANGED <<dirs, frames, faults, analysis, fn_args, fn_ret, config>>

\* save_image: cv2.imwrite cannot write the file and returns False, which save_image
\* discards
SaveFailsSilently(p) ==
    LET r == proc[p]
        c == r.call
    IN /\ r.pc = "save"
       /\ faults < MaxFaults
       /\ faults' = faults + 1
       /\ proc' = [proc EXCEPT ![p] =
            AfterSave([r EXCEPT !.call.saved = @ \union {short_name(c)},
                                !.call.save_failed = TRUE])]
       /\ UNCHANGED <<files, dirs, frames, analysis, fn_args, fn_ret, config>>

\* save_image raises (cvtColor or imwrite out of memory)
SaveRaises(p) ==
    LET r == proc[p]
    IN /\ r.pc = "save"
       /\ faults < MaxFaults
       /\ faults' = faults + 1
       /\ proc' = [proc EXCEPT ![p] =
            Raise(r, [error |-> "Exception", message |-> "save_image", what |-> <<>>])]
       /\ UNCHANGED <<files, dirs, frames, analysis, fn_args, fn_ret, config>>

Next ==
    \E p \in Procs :
        \/ Receive(p)
        \/ Call(p)
        \/ Check(p)
        \/ Load(p)
        \/ Generate(p)
        \/ GenerateFails(p)
        \/ SaveOpen(p)
        \/ SaveFinish(p)
        \/ SaveFailsSilently(p)
        \/ SaveRaises(p)

Spec == Init /\ [][Next]_vars

\* parameters other than the default ones, and other source pixels
OtherConfigs ==
    { [DefaultConfig EXCEPT !.fov = 120, !.output_size = <<800, 600>>,
                            !.view_angle = 30, !.below_fraction = 100],
      [DefaultConfig EXCEPT !.pixels = 2] }

\* the service is redeployed with other parameters, or the source frames are uploaded
\* again with other pixels, while requests are served
Reconfigure ==
    /\ config = DefaultConfig
    /\ \E other \in OtherConfigs : config' = other
    /\ UNCHANGED <<proc, files, dirs, frames, faults, analysis, fn_args, fn_ret>>

\* the handlers without injected failures, and the reconfiguration
NextConfig ==
    \/ \E p \in Procs :
          \/ Receive(p)
          \/ Call(p)
          \/ Check(p)
          \/ Load(p)
          \/ Generate(p)
          \/ SaveOpen(p)
          \/ SaveFinish(p)
    \/ Reconfigure

SpecConfig == Init /\ [][NextConfig]_vars

(***************************************************************************)
(* analyze_images (analyzer.py)                                            *)
(***************************************************************************)
MaxImages == 2      \* images in one AnalyzeRequest

\* VIEW_MAP[key], where key is one of its keys
ViewName(key) == VIEW_MAP[CHOOSE i \in 1..Len(VIEW_MAP) : VIEW_MAP[i].key = key].value

\* Path.exists(): a file or a directory
PathExists(path) == path \in DOMAIN files \/ path \in dirs

\* the loop of analyze_images from image i on: the analyzed_images list, or KeyError.
\* llm[i] tells whether analyze_with_openai answers for image i; decodes[i] whether
\* cv2.imread decodes a file that is still being written.
RECURSIVE AnalyzeLoop(_, _, _, _, _)
AnalyzeLoop(images, i, llm, decodes, analyzed_images) ==
    IF i > Len(images) THEN [raised |-> FALSE, analyzed_images |-> analyzed_images]
    ELSE
      LET img_info == images[i]
      IN IF img_info.direction \notin ViewCodes
         THEN [raised |-> TRUE, error |-> "KeyError", what |-> img_info.direction]
         ELSE
           LET image_result == [timestamp |-> img_info.timestamp,
                                direction |-> img_info.direction,
                                direction_name |-> ViewName(img_info.direction),
                                filepath |-> img_info.path]
               img_path == JoinPath(data_dir, img_info.path)
               entry ==
                   IF ~PathExists(img_path)
                   THEN image_result @@ [error |-> "Image not found"]
                   ELSE IF img_path \notin DOMAIN files
                           \/ (~files[img_path].complete /\ ~decodes[i])
                   THEN image_result @@ [error |-> "Failed to load image"]
                   ELSE IF llm[i]
                   THEN image_result @@ [llm_output |-> [answer |-> i]]
                   ELSE image_result @@ [error |-> "analyze_with_openai"]
           IN AnalyzeLoop(images, i + 1, llm, decodes, Append(analyzed_images, entry))

\* the images a request may name: two views of frame A, and one with a direction that
\* is no key of VIEW_MAP
AnalyzeTimestamp == parse_ftp_filename(BaseName(FrameA)).timestamp
ViewPathStr(timestamp, direction) ==
    PathStr(relative_to(get_unwarped_path(timestamp, direction), data_dir))
ImagesToAnalyze ==
    { [timestamp |-> AnalyzeTimestamp, direction |-> "N", path |-> ViewPathStr(AnalyzeTimestamp, "N")],
      [timestamp |-> AnalyzeTimestamp, direction |-> "B", path |-> ViewPathStr(AnalyzeTimestamp, "B")],
      [timestamp |-> AnalyzeTimestamp, direction |-> "X", path |-> ViewPathStr(AnalyzeTimestamp, "N")] }

AnalyzeRequests == UNION { [1..n -> ImagesToAnalyze] : n \in 1..MaxImages }

\* the view unwarp_image saves for a frame under a direction code
CachedView(image_path, direction) ==
    EncodedView(Lookup(get_room_views(cvtColor(imread(JoinPath(ftp_uploads_dir, image_path))),
                                      config.fov, config.output_size,
                                      config.view_angle, config.below_fraction),
                       ViewName(direction)))

\* caches unwarp_image leaves for frame A: each of N and B absent, being written or whole
CacheStates ==
    { [path \in {get_unwarped_path(AnalyzeTimestamp, d) : d \in whole \union torn} |->
          LET d == CHOOSE e \in whole \union torn : get_unwarped_path(AnalyzeTimestamp, e) = path
          IN IF d \in whole THEN Whole(CachedView(FrameA, d), 1) ELSE Torn(CachedView(FrameA, d), 1)] :
        whole \in SUBSET {"N", "B"}, torn \in SUBSET {"N", "B"} }

InitAnalyze ==
    /\ config = DefaultConfig
    /\ proc = [p \in Procs |-> IdleProc]
    /\ files \in CacheStates
    /\ dirs = {unwarped_dir, data_dir \o << <<"r", "e", "s", "u", "l", "t", "s">> >>} \union MkdirParents(unwarp_subdir(AnalyzeTimestamp))
    /\ frames = [ip \in ImagePaths |-> ip # FrameTorn]
    /\ faults = 0
    /\ analysis = Idle
    /\ fn_args = Idle
    /\ fn_ret = Idle

\* results_dir / f"{analysis_timestamp}.json"
result_path == data_dir \o << <<"r", "e", "s", "u", "l", "t", "s">>, <<"n", "o", "w", ".", "j", "s", "o", "n">> >>

\* the handler, from the request to its response
AnalyzeImages ==
    /\ analysis = Idle
    /\ \E images \in AnalyzeRequests, llm \in [1..MaxImages -> BOOLEAN],
          decodes \in [1..MaxImages -> BOOLEAN] :
          LET looped == AnalyzeLoop(images, 1, llm, decodes, <<>>)
              result == [analysis_timestamp |-> "now", prompt |-> "prompt",
                         analyzed_images |-> looped.analyzed_images]
          IN IF looped.raised
             THEN /\ analysis' = [fn |-> "analyze_images", images |-> images,
                                  response |-> [status_code |-> 500, detail |-> looped.what]]
                  /\ files' = files
             ELSE /\ analysis' = [fn |-> "analyze_images", images |-> images,
                                  response |-> [status_code |-> 200, result |-> result,
                                                result_file |-> PathStr(relative_to(result_path, data_dir))]]
                  /\ files' = (result_path :> [json |-> result]) @@ files
    /\ UNCHANGED <<proc, dirs, frames, faults, fn_args, fn_ret, config>>

NextAnalyze == AnalyzeImages

SpecAnalyze == InitAnalyze /\ [][NextAnalyze]_vars

(***************************************************************************)
(* Properties                                                              *)
(***************************************************************************)
\* the dict unwarp_image returns for a timestamp: every code of VIEW_MAP mapped to the
\* relative path of its view file
FivePaths(timestamp) == [d \in {"N", "E", "S", "W", "B"} |-> ViewPathStr(timestamp, d)]

Calls == {proc[p].call : p \in Procs}

\* C1: a call entered when all five view files of its timestamp exist returns the five
\* paths and has not read the source frame, not invoked get_room_views and not
\* written (or begun to write) any view file.
C1_CacheShortCircuit ==
    \A c \in Calls :
        c.hit_at_call =>
            /\ c.n_imread = 0
            /\ c.n_get_room_views = 0
            /\ c.saved = {} /\ c.written = {}
            /\ c.outcome # "raised"
            /\ c.outcome = "returned" => c.ret = FivePaths(c.timestamp)

\* C1 witness: a call that found the cache complete has returned
C1_Witness ==
    \E c \in Calls : c.hit_at_call /\ c.outcome = "returned"

\* C2 (as claimed): whenever unwarp_image has returned normally, all five view files of
\* the timestamp exist and the returned dict has exactly the keys N, E, S, W, B, each
\* mapped to the relative path of its file.
C2_ReturnedViewsExist ==
    \A c \in Calls :
        c.outcome = "returned" =>
            /\ c.ret = FivePaths(c.timestamp)
            /\ \A d \in DOMAIN c.ret : exists(JoinPath(data_dir, c.ret[d]))

C4_MissRegeneratesFullSet ==
    \A c \in Calls :
        (c.outcome = "returned" /\ ~c.all_exist) =>
            /\ c.n_imread = 1
            /\ c.n_get_room_views = 1
            /\ c.written = ViewCodes
            /\ c.found \subseteq c.overwrote
            /\ \A d \in ViewCodes :
                  /\ exists(c.unwarped_paths[d])
                  /\ files[c.unwarped_paths[d]].image = CachedView(c.image_path, d)

\* C5 (as claimed): a call in which generating or saving a view fails, fails, and has
\* created or modified none of the five view files.
C5_NoPartialWrite ==
    \A c \in Calls :
        /\ c.outcome = "raised" => (c.saved = {} /\ c.written = {})
        /\ c.save_failed => c.outcome # "returned"

\* C6 (as claimed), without any failure injected: every view file a call has returned
\* a path to holds, when the call returns and ever after, exactly what a sequential
\* call writes for the frame.
C6_NoCorruption ==
    faults = 0 =>
        \A c \in Calls :
            c.outcome = "returned" =>
                \A d \in DOMAIN c.ret :
                    LET path == JoinPath(data_dir, c.ret[d])
                    IN /\ path \in DOMAIN files
                       /\ files[path].complete
                       /\ files[path].image = CachedView(c.image_path, d)

\* C7 (as claimed), without any failure injected: when unwarp_images has answered, the
\* answer holds the result of every image path of the request that has a valid name
\* and a decodable frame, whatever the other paths of the request are.
C7_BatchSurvivesFailure ==
    faults = 0 =>
        \A p \in Procs :
            proc[p].pc = "done" =>
                \A j \in 1..Len(proc[p].image_paths) :
                    LET image_path == proc[p].image_paths[j]
                        parsed == parse_ftp_filename(BaseName(image_path))
                    IN (parsed # None /\ frames[image_path]) =>
                          /\ proc[p].response.status_code = 200
                          /\ parsed.timestamp \in DOMAIN proc[p].response.unwarped

\* C8 (as claimed): the answer of analyze_images lists one entry per requested image,
\* in request order, each with exactly one of llm_output and error.
C8_OneEntryPerImage ==
    analysis # Idle =>
        /\ analysis.response.status_code = 200
        /\ LET analyzed_images == analysis.response.result.analyzed_images
           IN /\ Len(analyzed_images) = Len(analysis.images)
              /\ \A i \in 1..Len(analysis.images) :
                    /\ analyzed_images[i].timestamp = analysis.images[i].timestamp
                    /\ analyzed_images[i].direction = analysis.images[i].direction
                    /\ analyzed_images[i].filepath = analysis.images[i].path
                    /\ ("llm_output" \in DOMAIN analyzed_images[i])
                          # ("error" \in DOMAIN analyzed_images[i])

\* C9: get_room_views returns exactly the views North, East, South, West and Below,
\* the four cardinal ones with yaw 0, 90, 180, 270 and the pitch view_angle.
C9_FiveViews ==
    fn_ret # Idle /\ fn_ret.fn = "get_room_views" =>
        LET views == fn_ret.views
        IN /\ Keys(views) = {North, East, South, West, Below}
           /\ Len(views) = 5
           /\ Lookup(views, North).theta = 0
           /\ Lookup(views, East).theta = 90
           /\ Lookup(views, South).theta = 180
           /\ Lookup(views, West).theta = 270
           /\ \A name \in {North, East, South, West} :
                 Lookup(views, name).phi = fn_args.view_angle

\* C9 witness: the views of a call with a pitch other than the default
C9_Witness ==
    /\ fn_ret # Idle /\ fn_ret.fn = "get_room_views"
    /\ fn_args.view_angle = 30
    /\ Len(fn_ret.views) = 5

\* a 14-digit string that reads as a date-time, field by field
IsTimestamp14(s) ==
    /\ Len(s) = 14
    /\ \A i \in 1..14 : IsDigit(s[i])
    /\ LET n(i) == 10 * DigitVal(s[i]) + DigitVal(s[i + 1])
       IN ValidDateTime(100 * n(1) + n(3), n(5), n(7), n(9), n(11), n(13))

\* C10 (as claimed): what either parser returns carries a timestamp of exactly 14
\* digits that form a valid YYYYMMDDHHMMSS date-time.
C10_TimestampIs14Digits ==
    fn_ret # Idle /\ fn_ret.fn = "parse" =>
        /\ fn_ret.ftp # None => IsTimestamp14(fn_ret.ftp.timestamp)
        /\ fn_ret.s3 # None => IsTimestamp14(fn_ret.s3.timestamp)

\* c.lower() of one character
Lower(c) ==
    IF \E d \in {"a", "e", "i", "k", "l", "n", "o", "r"} : Upper(d) = c
    THEN CHOOSE d \in {"a", "e", "i", "k", "l", "n", "o", "r"} : Upper(d) = c
    ELSE c

\* a name that differs from a valid Reolink_00_YYYYMMDDHHMMSS.jpg name at most in the
\* letter case of "reolink"
IsReolinkNameUpToCase(filename) ==
    /\ Len(filename) = 29
    /\ [i \in 1..7 |-> Lower(filename[i])] = <<"r", "e", "o", "l", "i", "n", "k">>
    /\ SubSeq(filename, 8, 11) = <<"_", "0", "0", "_">>
    /\ IsTimestamp14(SubSeq(filename, 12, 25))
    /\ SubSeq(filename, 26, 29) = DotJpg

\* C11 (as claimed): both parsers accept every name that differs from a valid
\* Reolink_00_YYYYMMDDHHMMSS.jpg name only in the letter case of "reolink", and
\* return its 14 digits as the timestamp.
C11_PrefixCaseInsensitive ==
    (fn_ret # Idle /\ fn_ret.fn = "parse" /\ IsReolinkNameUpToCase(fn_args.filename)) =>
        /\ fn_ret.ftp # None
        /\ fn_ret.ftp.timestamp = SubSeq(fn_args.filename, 12, 25)
        /\ fn_ret.s3 # None
        /\ fn_ret.s3.timestamp = SubSeq(fn_args.filename, 12, 25)

\* {unwarped base}/{YYYY}/{MM}/{DD}/{timestamp}_{direction_code}.jpg
SchemePath(timestamp, direction) ==
    unwarped_dir \o << SubSeq(timestamp, 1, 4), SubSeq(timestamp, 5, 6), SubSeq(timestamp, 7, 8),
                       timestamp \o <<"_">> \o <<direction>> \o <<".", "j", "p", "g">> >>

\* the timestamps of the frames a request can name
FrameTimestamps ==
    { parse_ftp_filename(BaseName(ip)).timestamp :
        ip \in {jp \in ImagePaths : parse_ftp_filename(BaseName(jp)) # None} }

\* C12: every path get_unwarped_path has returned to a call is the path of the scheme
\* for the timestamp parsed from the frame's name and the direction code, every file unwarp_image has written
\* is at the scheme's path of a requested frame's timestamp and a code of N, E, S, W, B,
\* and two paths returned for different (timestamp, direction) pairs differ.
C12_PathScheme ==
    /\ \A c \in Calls :
          /\ DOMAIN c.unwarped_paths \subseteq {"N", "E", "S", "W", "B"}
          /\ \A d \in DOMAIN c.unwarped_paths :
                c.unwarped_paths[d] = SchemePath(c.timestamp, d)
    /\ \A path \in DOMAIN files :
          \E timestamp \in FrameTimestamps, d \in {"N", "E", "S", "W", "B"} :
              path = SchemePath(timestamp, d)
    /\ \A c1, c2 \in Calls :
          \A d1 \in DOMAIN c1.unwarped_paths, d2 \in DOMAIN c2.unwarped_paths :
              c1.unwarped_paths[d1] = c2.unwarped_paths[d2] =>
                  (c1.timestamp = c2.timestamp /\ d1 = d2)

\* C12 witness: two calls for frames of the same day hold their five paths each, and
\* the Below view of the frame of 2026-01-27 00:00:00 is written at its path
C12_Witness ==
    /\ \E c1, c2 \in Calls :
          /\ DOMAIN c1.unwarped_paths = {"N", "E", "S", "W", "B"}
          /\ DOMAIN c2.unwarped_paths = {"N", "E", "S", "W", "B"}
          /\ c1.timestamp # c2.timestamp
          /\ SubSeq(c1.timestamp, 1, 8) = SubSeq(c2.timestamp, 1, 8)
    /\ \E path \in DOMAIN files :
          PathStr(path) = <<"d", "a", "t", "a", "/", "u", "n", "w", "a", "r", "p", "e", "d", "/",
                            "2", "0", "2", "6", "/", "0", "1", "/", "2", "7", "/",
                            "2", "0", "2", "6", "0", "1", "2", "7", "0", "0", "0", "0", "0", "0",
                            "_", "B", ".", "j", "p", "g">>

(***************************************************************************)
(* The map builder (camera_capture.py create_perspective_map)              *)
(*                                                                         *)
(* Lengths are kept as integers: cx, cy, radius and the pixel offsets are  *)
(* held doubled, a ray is held unnormalised (a positive multiple of the    *)
(* unit ray has the same angle from nadir and the same azimuth).  The      *)
(* trigonometry is evaluated where it is exact: fov = 90 (tan(fov/2) = 1)  *)
(* and yaw and pitch multiples of 90 degrees; for other parameters a map   *)
(* entry holds the operands of the formula.                                *)
(***************************************************************************)
\* np.arange(n): 0 .. n-1, empty when n <= 0
arange(n) == 0..(n - 1)

\* cos and sin of deg degrees, deg a multiple of 90
Cos90(deg) == CASE deg % 360 = 0 -> 1 [] deg % 360 = 90 -> 0 [] deg % 360 = 180 -> -1 [] OTHER -> 0
Sin90(deg) == CASE deg % 360 = 0 -> 0 [] deg % 360 = 90 -> 1 [] deg % 360 = 180 -> 0 [] OTHER -> -1

\* Rx @ ray: the pitch
Rx(phi, ray) ==
    << ray[1],
       Cos90(phi) * ray[2] - Sin90(phi) * ray[3],
       Sin90(phi) * ray[2] + Cos90(phi) * ray[3] >>

\* the transpose of Ry applied, which turns the yaw the other way (a faulty variant, to
\* test C18)
RyTransposed(theta, ray) ==
    << Cos90(theta) * ray[1] - Sin90(theta) * ray[3],
       ray[2],
       Sin90(theta) * ray[1] + Cos90(theta) * ray[3] >>

\* Ry @ ray: the yaw
Ry(theta, ray) ==
    << Cos90(theta) * ray[1] + Sin90(theta) * ray[3],
       ray[2],
       (0 - Sin90(theta)) * ray[1] + Cos90(theta) * ray[3] >>

\* rays_rotated of the output pixel (column i, row j): R = Ry @ Rx applied to
\* (x_norm, y_norm, 1), scaled by 2f = out_w
RotatedRay(out_w, out_h, theta, phi, i, j) ==
    LET x2 == 2 * i - out_w
        y2 == 2 * j - out_h
    IN Ry(theta, Rx(phi, <<x2, 0 - y2, out_w>>))

\* the entry of (map_x, map_y) for the output pixel (column i, row j)
SourcePoint(h, w, out_w, out_h, fov, theta, phi, i, j) ==
    IF fov = 90 /\ theta % 90 = 0 /\ phi % 90 = 0
    THEN [cx2 |-> w, cy2 |-> h, radius2 |-> IF w < h THEN w ELSE h,
          ray |-> RotatedRay(out_w, out_h, theta, phi, i, j)]
    ELSE [cx2 |-> w, cy2 |-> h, radius2 |-> IF w < h THEN w ELSE h,
          x2 |-> 2 * i - out_w, y2 |-> 2 * j - out_h, out_w |-> out_w,
          fov |-> fov, theta |-> theta, phi |-> phi]

\* create_perspective_map: no parameter is checked and nothing raises; the maps have
\* len(y) rows and len(x) columns, none for a non-positive out_h or out_w
create_perspective_map(fisheye_shape, output_size, fov, theta, phi) ==
    LET h == fisheye_shape[1]
        w == fisheye_shape[2]
        out_w == output_size[1]
        out_h == output_size[2]
    IN [raised |-> FALSE,
        rows |-> Cardinality(arange(out_h)),
        cols |-> Cardinality(arange(out_w)),
        at |-> [p \in arange(out_h) \X arange(out_w) |->
                   SourcePoint(h, w, out_w, out_h, fov, theta, phi, p[2], p[1])]]

\* twice (map_x, map_y) of an entry whose ray is level (angle_from_nadir = pi/2, so
\* r_fish = radius) and along an axis (sin and cos of the azimuth are 0, 1 or -1)
LevelAxisRay(pt) ==
    /\ "ray" \in DOMAIN pt
    /\ pt.ray[2] = 0
    /\ (pt.ray[1] = 0) # (pt.ray[3] = 0)
Sign(n) == IF n > 0 THEN 1 ELSE IF n < 0 THEN -1 ELSE 0
\* map_y = cy + r_fish * cos(azimuth): the sign of the cosine term turned (a faulty
\* variant, to test C16)
MapXY2PlusCos(pt) ==
    << pt.cx2 + pt.radius2 * Sign(pt.ray[1]), pt.cy2 + pt.radius2 * Sign(pt.ray[3]) >>
MapXY2(pt) ==
    << pt.cx2 + pt.radius2 * Sign(pt.ray[1]), pt.cy2 - pt.radius2 * Sign(pt.ray[3]) >>

\* the entry is (cx, cy): r_fish = 0, which is angle_from_nadir = 0, the ray pointing
\* straight down (-ry equal to the ray's length)
SourceIsCentre(pt) ==
    /\ "ray" \in DOMAIN pt
    /\ pt.ray[1] = 0 /\ pt.ray[3] = 0 /\ pt.ray[2] < 0

\* the parameters create_perspective_map is called with
FisheyeShapes == { <<8, 8, 3>>, <<6, 8, 3>>, <<8, 6, 3>> }
MapOutputSizes == { <<4, 2>>, <<2, 2>>, <<4, 4>>, <<3, 3>>, <<0, 2>>, <<2, 0>>, <<-2, 2>> }
MapFovs == {90, 60, 0, 200}
MapThetas == {0, 90, 180, 270, 450}
MapPhis == {0, 45, 400}

InitMap ==
    /\ InitPure
    /\ \E fisheye_shape \in FisheyeShapes, output_size \in MapOutputSizes, fov \in MapFovs,
          theta \in MapThetas, phi \in MapPhis :
          fn_args = [fn |-> "create_perspective_map", fisheye_shape |-> fisheye_shape,
                     output_size |-> output_size, fov |-> fov, theta |-> theta, phi |-> phi]

ApplyCreatePerspectiveMap ==
    /\ fn_args.fn = "create_perspective_map"
    /\ fn_ret = Idle
    /\ fn_ret' = [fn |-> "create_perspective_map",
                  maps |-> create_perspective_map(fn_args.fisheye_shape, fn_args.output_size,
                                                  fn_args.fov, fn_args.theta, fn_args.phi)]
    /\ UNCHANGED <<proc, files, dirs, frames, faults, analysis, fn_args, config>>

NextMap == ApplyCreatePerspectiveMap

SpecMap == InitMap /\ [][NextMap]_vars

\* output dimensions, fov and angles in their ranges
ValidGeometry(output_size, fov, theta, phi) ==
    /\ output_size[1] > 0 /\ output_size[2] > 0
    /\ fov > 0 /\ fov < 180
    /\ theta >= 0 /\ theta < 360
    /\ phi >= -90 /\ phi <= 90

\* C13 (as claimed): a call of the map builder with a non-positive output width or
\* height, or with an out-of-range fov or angle, fails with an error and produces no map.
C13_InvalidGeometryRejected ==
    (fn_ret # Idle /\ fn_ret.fn = "create_perspective_map"
       /\ ~ValidGeometry(fn_args.output_size, fn_args.fov, fn_args.theta, fn_args.phi)) =>
        fn_ret.maps.raised

\* C14: a call for a frame that cannot be decoded, the five view files not being all
\* present, fails with an error that names the source path; it never invokes
\* get_room_views and never writes (or begins to write) a view file.
C14_UndecodableFrameFails ==
    \A p \in Procs :
        LET c == proc[p].call
        IN (c.image_path \in DOMAIN frames /\ ~frames[c.image_path]) =>
              /\ proc[p].pc \notin {"generate", "save", "write"}
              /\ c.n_get_room_views = 0
              /\ c.saved = {} /\ c.written = {}
              /\ c.outcome # "returned"
              /\ c.outcome = "raised" =>
                    /\ ~c.all_exist
                    /\ proc[p].response.status_code = 500
                    /\ proc[p].response.detail.message = "Failed to load image"
                    /\ proc[p].response.detail.what
                          = PathStr(ftp_uploads_dir) \o <<"/">> \o c.image_path

\* C14 witness: cv2.imread was called for the undecodable frame and the call has raised
C14_Witness ==
    \E p \in Procs :
        /\ proc[p].call.image_path = FrameTorn
        /\ proc[p].call.n_imread = 1
        /\ proc[p].call.outcome = "raised"

\* the view file at path belongs to the timestamp: its name is {timestamp}_{code}.jpg
BelongsTo(path, timestamp) ==
    /\ Len(PathName(path)) = Len(timestamp) + 6
    /\ SubSeq(PathName(path), 1, Len(timestamp)) = timestamp

\* C15: every step of an unwarp_image call, of a succeeding and of a failing one,
\* deletes no view file, creates or changes only view files of the call's own
\* timestamp, and changes the cache-hit status of no other timestamp.
C15_FailureLocality ==
    [][/\ DOMAIN files \subseteq DOMAIN files'
       /\ \A path \in DOMAIN files' :
             (path \notin DOMAIN files \/ files'[path] # files[path]) =>
                 \E p \in Procs : /\ proc'[p] # proc[p]
                                  /\ Len(proc[p].call.timestamp) = 14
                                  /\ BelongsTo(path, proc[p].call.timestamp)
       /\ \A timestamp \in FrameTimestamps :
             (AllViewsExist(timestamp)' # AllViewsExist(timestamp)) =>
                 \E p \in Procs : /\ proc'[p] # proc[p]
                                  /\ proc[p].call.timestamp = timestamp]_vars

\* C15 witness: a call has failed after writing a view file while the five view files
\* of another timestamp exist
C15_Witness ==
    \E c \in Calls :
        /\ c.outcome = "raised" /\ c.written # {}
        /\ \E timestamp \in FrameTimestamps :
              timestamp # c.timestamp /\ AllViewsExist(timestamp)

\* a call with theta = 0, phi = 0, fov = 90 and an output that has a centre pixel
ForwardAxisCall ==
    /\ fn_ret # Idle /\ fn_ret.fn = "create_perspective_map"
    /\ fn_args.theta = 0 /\ fn_args.phi = 0 /\ fn_args.fov = 90
    /\ fn_args.output_size[1] > 0 /\ fn_args.output_size[1] % 2 = 0
    /\ fn_args.output_size[2] > 0 /\ fn_args.output_size[2] % 2 = 0

\* the map entry of the output pixel x = out_w/2, y = out_h/2
CentreEntry == fn_ret.maps.at[<<fn_args.output_size[2] \div 2, fn_args.output_size[1] \div 2>>]

\* C16 (as claimed): for theta = 0, phi = 0, fov = 90 the centre output pixel maps to
\* the source coordinate (cx, cy).
C16_CentreRayUndeviated ==
    ForwardAxisCall => SourceIsCentre(CentreEntry)

\* C16 (amended): for theta = 0, phi = 0, fov = 90 the centre output pixel maps to
\* (cx, cy - radius): its ray is level, a quarter-turn from nadir, so r_fish = radius,
\* and its azimuth is 0.
C16_CentreRayAtRim ==
    ForwardAxisCall =>
        LET h == fn_args.fisheye_shape[1]
            w == fn_args.fisheye_shape[2]
        IN /\ LevelAxisRay(CentreEntry)
           /\ MapXY2(CentreEntry) = <<w, h - (IF w < h THEN w ELSE h)>>

\* C16 witness: for a frame 8 wide and 6 high (cx = 4, cy = 3, radius = 3) the centre
\* pixel of a 4 x 2 output maps to (4, 0)
C16_Witness ==
    /\ ForwardAxisCall
    /\ fn_args.fisheye_shape = <<6, 8, 3>>
    /\ fn_args.output_size = <<4, 2>>
    /\ MapXY2(CentreEntry) = <<8, 0>>

(***************************************************************************)
(* The pixels of extract_center_view (camera_capture.py)                   *)
(*                                                                         *)
(* Coordinates are exact fractions <<numerator, denominator>>.  A pixel is *)
(* "zero", "nonzero", or "blend" when the bilinear sample mixes source     *)
(* pixels with the constant border (its value depends on the weights).     *)
(***************************************************************************)
\* np.linspace(-1, 1, n)[i], as a fraction
linspace(n, i) == IF n = 1 THEN <<-1, 1>> ELSE <<2 * i - (n - 1), n - 1>>

\* mask = r_out <= 1 at the output pixel (column i, row j)
Mask(output_size, i, j) ==
    LET x == linspace(output_size[1], i)
        y == linspace(output_size[2], j)
    IN x[1] * x[1] * y[2] * y[2] + y[1] * y[1] * x[2] * x[2] <= x[2] * x[2] * y[2] * y[2]

\* map_x = cx + r_fish * cos(theta_out) = cx + x * radius * radius_fraction (and map_y
\* likewise with y and cy), radius_fraction in hundredths: the fraction for the offset
\* off along a frame side of length side
MapCoordinate(side, h, w, radius_fraction, off) ==
    << 100 * off[2] * side + off[1] * (IF w < h THEN w ELSE h) * radius_fraction,
       200 * off[2] >>

\* the source columns (or rows) a bilinear sample at the coordinate reads
Neighbours(coordinate) ==
    {coordinate[1] \div coordinate[2]}
        \union (IF coordinate[1] % coordinate[2] = 0 THEN {}
                ELSE {coordinate[1] \div coordinate[2] + 1})

\* cv2.remap(img, map_x, map_y, INTER_LINEAR, borderMode=BORDER_CONSTANT) at one pixel
remap(img, map_x, map_y) ==
    LET h == img.shape[1]
        w == img.shape[2]
        read == Neighbours(map_x) \X Neighbours(map_y)
        inside == {n \in read : n[1] >= 0 /\ n[1] < w /\ n[2] >= 0 /\ n[2] < h}
    IN IF inside = {} \/ img.black THEN "zero"
       ELSE IF inside = read THEN "nonzero"
       ELSE "blend"

\* result[j, i] of extract_center_view
CenterViewPixel(img, radius_fraction, output_size, i, j) ==
    LET h == img.shape[1]
        w == img.shape[2]
        map_x == MapCoordinate(w, h, w, radius_fraction, linspace(output_size[1], i))
        map_y == MapCoordinate(h, h, w, radius_fraction, linspace(output_size[2], j))
    IN IF ~Mask(output_size, i, j) THEN "zero" ELSE remap(img, map_x, map_y)

\* the frames and output sizes extract_center_view is applied to
CenterFrames == { [shape |-> shape, black |-> black] : shape \in FisheyeShapes, black \in BOOLEAN }
CenterOutputSizes ==
    { <<1, 1>>, <<2, 2>>, <<3, 3>>, <<4, 4>>, <<5, 5>>, <<3, 2>>, <<4, 3>>, <<5, 3>> }

InitCenter ==
    /\ InitPure
    /\ \E img \in CenterFrames, radius_fraction \in BelowFractions,
          output_size \in CenterOutputSizes :
          fn_args = [fn |-> "extract_center_view", img |-> img,
                     radius_fraction |-> radius_fraction, output_size |-> output_size]

ApplyExtractCenterView ==
    /\ fn_args.fn = "extract_center_view"
    /\ fn_ret = Idle
    /\ fn_ret' = [fn |-> "extract_center_view",
                  result |-> [p \in arange(fn_args.output_size[2]) \X arange(fn_args.output_size[1]) |->
                                 CenterViewPixel(fn_args.img, fn_args.radius_fraction,
                                                 fn_args.output_size, p[2], p[1])]]
    /\ UNCHANGED <<proc, files, dirs, frames, faults, analysis, fn_args, config>>

NextCenter == ApplyExtractCenterView

SpecCenter == InitCenter /\ [][NextCenter]_vars

\* C17 (as claimed): every output pixel with r_out > 1 is zero, the four corners among
\* them, and for a source without a black pixel every output pixel with r_out <= 1 is
\* non-zero (a pixel blended with the border counts as non-zero here).
C17_DiskMasking ==
    (fn_ret # Idle /\ fn_ret.fn = "extract_center_view") =>
        \A p \in DOMAIN fn_ret.result :
            /\ ~Mask(fn_args.output_size, p[2], p[1]) => fn_ret.result[p] = "zero"
            /\ (Mask(fn_args.output_size, p[2], p[1]) /\ ~fn_args.img.black) =>
                  fn_ret.result[p] # "zero"

\* C18: with phi = 0 (and fov = 90), for every output pixel the ray rotated for
\* theta = 90 has the same angle from nadir as the ray rotated for theta = 0 (the same
\* ry and the same length, so the same r_fish) and an azimuth atan2(rx, rz) greater by
\* 90 degrees: (rx, rz) becomes (rz, -rx).  The source offset r_fish * (sin(azimuth),
\* -cos(azimuth)) from (cx, cy), which has the direction of (rx, -rz), is therefore the
\* offset for theta = 0 turned by a quarter-turn, (a, b) to (-b, a).
C18_YawQuarterTurn ==
    (fn_ret # Idle /\ fn_ret.fn = "create_perspective_map"
       /\ fn_args.theta = 90 /\ fn_args.phi = 0 /\ fn_args.fov = 90) =>
        LET at0 == create_perspective_map(fn_args.fisheye_shape, fn_args.output_size,
                                          fn_args.fov, 0, fn_args.phi).at
            at90 == fn_ret.maps.at
        IN /\ DOMAIN at90 = DOMAIN at0
           /\ \A p \in DOMAIN at90 :
                 LET r0 == at0[p].ray
                     r90 == at90[p].ray
                     a == r0[1]
                     b == 0 - r0[3]
                 IN /\ r90[2] = r0[2]
                    /\ r90[1] * r90[1] + r90[3] * r90[3] = r0[1] * r0[1] + r0[3] * r0[3]
                    /\ <<r90[1], r90[3]>> = <<r0[3], 0 - r0[1]>>
                    /\ <<r90[1], 0 - r90[3]>> = <<0 - b, a>>
                    /\ at90[p].cx2 = at0[p].cx2 /\ at90[p].cy2 = at0[p].cy2
                    /\ at90[p].radius2 = at0[p].radius2

\* C18 witness: the top left pixel of a 4 x 2 output, whose ray (-4, 2, 4) for theta = 0
\* is (4, 2, 4) for theta = 90
C18_Witness ==
    /\ fn_ret # Idle /\ fn_ret.fn = "create_perspective_map"
    /\ fn_args.theta = 90 /\ fn_args.phi = 0 /\ fn_args.fov = 90
    /\ fn_args.output_size = <<4, 2>>
    /\ fn_ret.maps.at[<<0, 0>>].ray = <<4, 2, 4>>

\* the call of process p has finished its existence loop
Decided(p) == Len(proc[p].call.timestamp) = 14 /\ proc[p].pc # "check"

\* C19: whether a call hits or regenerates is decided by the set of view files its
\* existence loop found and by nothing else: it hits exactly when it found all five,
\* whatever parameters and source pixels are in effect, so two calls for one timestamp
\* that found the same files decide alike and return the same paths; a hit reads no
\* frame, generates nothing and opens no file, so the files are returned as they are.
C19_HitIgnoresConfig ==
    /\ \A p \in Procs :
          LET c == proc[p].call
          IN Decided(p) =>
                /\ c.all_exist = (c.found = {"N", "E", "S", "W", "B"})
                /\ c.all_exist =>
                      /\ c.outcome = "returned" /\ c.ret = FivePaths(c.timestamp)
                      /\ c.n_imread = 0 /\ c.n_get_room_views = 0
                      /\ c.saved = {} /\ c.written = {}
                /\ (~c.all_exist /\ c.outcome = "returned") => c.ret = FivePaths(c.timestamp)
    /\ \A p1, p2 \in Procs :
          LET c1 == proc[p1].call
              c2 == proc[p2].call
          IN (Decided(p1) /\ Decided(p2) /\ c1.timestamp = c2.timestamp /\ c1.found = c2.found) =>
                /\ c1.all_exist = c2.all_exist
                /\ (c1.outcome = "returned" /\ c2.outcome = "returned") => c1.ret = c2.ret

\* C19 witness: a call entered under changed parameters or pixels has hit, and the North
\* file it returned holds the view generated under the old ones
C19_Witness ==
    \E p \in Procs :
        LET c == proc[p].call
        IN /\ Decided(p) /\ c.all_exist /\ c.outcome = "returned"
           /\ c.config # DefaultConfig
           /\ LET view == files[c.unwarped_paths["N"]].image
              IN view.fov # c.config.fov \/ view.src.pixels # c.config.pixels

\* C20: the North, East, South and West views get_room_views returns are output_size[0]
\* wide and output_size[1] high, and the Below view is square with the side
\* output_size[0].
C20_ViewSizes ==
    (fn_ret # Idle /\ fn_ret.fn = "get_room_views") =>
        LET views == fn_ret.views
            w == fn_args.output_size[1]
            h == fn_args.output_size[2]
        IN /\ \A name \in {North, East, South, West} :
                 /\ Lookup(views, name).width = w
                 /\ Lookup(views, name).height = h
           /\ Lookup(views, Below).width = w
           /\ Lookup(views, Below).height = w

\* C20 witness: under the default output size the North view is 1080 x 810 and the
\* Below view 1080 x 1080
C20_Witness ==
    /\ fn_ret # Idle /\ fn_ret.fn = "get_room_views"
    /\ fn_args.output_size = <<1080, 810>>
    /\ Lookup(fn_ret.views, North).width = 1080 /\ Lookup(fn_ret.views, North).height = 810
    /\ Lookup(fn_ret.views, Below).width = 1080 /\ Lookup(fn_ret.views, Below).height = 1080

(***************************************************************************)
(* The listings of the stored frames                                       *)
(* (analyzer.py get_images_in_range; s3_service.py list_images_by_date,    *)
(* list_images_by_range, get_image_stats)                                  *)
(*                                                                         *)
(* A stored frame is the sequence of the components of its path below      *)
(* ftp_uploads_dir, which is its S3 key below the prefix "ftp_uploads/":   *)
(* the folders the camera filed it in, then the file name.  The camera     *)
(* chooses the folders (services/ftp_server.py stores what the client      *)
(* sends where the client says); no service moves or renames an upload.    *)
(* In the listings' specification frames maps the stored frames to TRUE,   *)
(* fn_args is the query and fn_ret holds what each listing returns.        *)
(***************************************************************************)

\* a <= b of two Python strings of digits, blanks and dashes: by the code point of the
\* first character that differs, a prefix before its extensions
StrLeq(a, b) ==
    LET ord(c) == IF c = " " THEN 32 ELSE IF c = "-" THEN 45 ELSE 48 + DigitVal(c)
        n == IF Len(a) < Len(b) THEN Len(a) ELSE Len(b)
        differ == { k \in 1..n : a[k] # b[k] }
    IN IF differ = {} THEN Len(a) <= Len(b)
       ELSE LET k == CHOOSE i \in differ : \A j \in differ : i <= j
            IN ord(a[k]) < ord(b[k])

\* a <= b of two datetimes
DtLeq(a, b) ==
    LET A == <<a.year, a.month, a.day, a.hour, a.minute, a.second>>
        B == <<b.year, b.month, b.day, b.hour, b.minute, b.second>>
        differ == { k \in 1..6 : A[k] # B[k] }
    IN IF differ = {} THEN TRUE
       ELSE LET k == CHOOSE i \in differ : \A j \in differ : i <= j
            IN A[k] < B[k]

\* items sorted by a string key: items is the set of the pairs <<key, value>> collected,
\* the result the sequence of the pairs by ascending key.  list.sort and sorted are
\* stable, so pairs of one key keep the order of the scan, which is the file system's
\* or the bucket's: CHOOSE stands for that order.
RECURSIVE sorted(_)
sorted(items) ==
    IF items = {} THEN <<>>
    ELSE LET first == CHOOSE x \in items : \A y \in items : StrLeq(x[1], y[1])
         IN <<first>> \o sorted(items \ {first})

\* datetime.strptime(f"{date} {time}", '%Y-%m-%d %H:%M') for a date written YYYY-MM-DD
\* and a time written HH:MM, the forms the viewer sends (the seconds are 0); None where
\* it raises ValueError
strptime_minute(date, time) ==
    IF ~(Len(date) = 10 /\ date[5] = "-" /\ date[8] = "-" /\ Len(time) = 5 /\ time[3] = ":")
    THEN None
    ELSE strptime(SubSeq(date, 1, 4) \o SubSeq(date, 6, 7) \o SubSeq(date, 9, 10)
                  \o SubSeq(time, 1, 2) \o SubSeq(time, 4, 5) \o <<"0", "0">>)

\* analyzer.py get_images_in_range: the walk over year, month and day folders and the
\* glob of each day folder; filepath is the path relative to ftp_uploads_dir
get_images_in_range(stored, start_date, end_date, start_time, end_time) ==
    LET glob(name) == /\ Len(name) >= Len(Reolink_00_) + Len(DotJpg)
                      /\ StartsWith(name, Reolink_00_)
                      /\ EndsWith(name, DotJpg)
        values(by_timestamp) == [i \in 1..Len(by_timestamp) |-> by_timestamp[i][2]]
        \* start_dt and end_dt are parsed before the walk; dt is <<start_dt, end_dt>>
        walk(dt) ==
            LET \* one globbed file: appended when its name parses into the range
                image(k, parsed) ==
                    IF parsed # None /\ DtLeq(dt[1], parsed.datetime)
                                     /\ DtLeq(parsed.datetime, dt[2])
                    THEN { <<parsed.timestamp,
                             [timestamp |-> parsed.timestamp, filename |-> k[4],
                              date |-> parsed.date, time |-> parsed.time, filepath |-> k]>> }
                    ELSE {}
            IN IF None \in {dt[1], dt[2]} THEN [raised |-> "ValueError"]
               ELSE values(sorted(UNION { image(k, parse_ftp_filename(k[4])) :
                                            k \in { j \in stored : Len(j) = 4 /\ glob(j[4]) } }))
    IN walk([i \in 1..2 |-> strptime_minute(IF i = 1 THEN start_date ELSE end_date,
                                            IF i = 1 THEN start_time ELSE end_time)])

\* s3_service.py, the loop over the pages of a prefix that the three S3 listings share:
\* the keys below the prefix whose file name ends in .jpg, in any case, and parses, each
\* with what parse_image_filename gave for it
PagedFrames(stored, prefix) ==
    LET jpg(filename) ==
            LET n == Len(filename)
            IN /\ n >= 4
               /\ filename[n - 3] = "."
               /\ filename[n - 2] \in {"j", "J"}
               /\ filename[n - 1] \in {"p", "P"}
               /\ filename[n] \in {"g", "G"}
        frame(k, parsed) == IF parsed # None THEN { <<k, parsed>> } ELSE {}
    IN UNION { frame(k, parse_image_filename(k[Len(k)])) :
                 k \in { j \in stored : /\ Len(j) > Len(prefix)
                                        /\ SubSeq(j, 1, Len(prefix)) = prefix
                                        /\ jpg(j[Len(j)]) } }

\* s3_service.py list_images_by_date
list_images_by_date(stored, date) ==
    LET image(f) == [key |-> f[1], filename |-> f[1][Len(f[1])], timestamp |-> f[2].timestamp,
                     date |-> f[2].date, time |-> f[2].time]
        values(by_timestamp) == [i \in 1..Len(by_timestamp) |-> by_timestamp[i][2]]
        listing(dt) ==
            IF dt = None THEN <<>>
            ELSE values(sorted({ <<f[2].timestamp, image(f)>> :
                                   f \in PagedFrames(stored, <<Str(dt.year), Pad2(dt.month),
                                                               Pad2(dt.day)>>) }))
    IN listing(strptime_minute(date, <<"0", "0", ":", "0", "0">>))

\* s3_service.py list_images_by_range
list_images_by_range(stored, from_date, to_date, from_time, to_time) ==
    LET date(d) == <<d.year, d.month, d.day>>
        \* current_date <= end_date
        date_leq(a, b) == \/ a[1] < b[1]
                          \/ a[1] = b[1] /\ a[2] < b[2]
                          \/ a[1] = b[1] /\ a[2] = b[2] /\ a[3] <= b[3]
        \* current_date + timedelta(days=1)
        next_day(d) == IF d[3] < DaysInMonth(d[1], d[2]) THEN <<d[1], d[2], d[3] + 1>>
                       ELSE IF d[2] < 12 THEN <<d[1], d[2] + 1, 1>>
                       ELSE <<d[1] + 1, 1, 1>>
        image(f) == [key |-> f[1], filename |-> f[1][Len(f[1])], timestamp |-> f[2].timestamp,
                     date |-> f[2].date, time |-> f[2].time]
        values(by_timestamp) == [i \in 1..Len(by_timestamp) |-> by_timestamp[i][2]]
        \* dt is <<start_dt, end_dt>>
        listing(dt) ==
            LET \* the while loop: the frames appended from current_date on
                RECURSIVE from_day(_)
                from_day(current_date) ==
                    IF ~date_leq(current_date, date(dt[2])) THEN {}
                    ELSE { f \in PagedFrames(stored, <<Str(current_date[1]), Pad2(current_date[2]),
                                                       Pad2(current_date[3])>>) :
                             DtLeq(dt[1], f[2].datetime) /\ DtLeq(f[2].datetime, dt[2]) }
                         \cup from_day(next_day(current_date))
            IN IF None \in {dt[1], dt[2]} THEN <<>>
               ELSE values(sorted({ <<f[2].timestamp, image(f)>> : f \in from_day(date(dt[1])) }))
    IN listing([i \in 1..2 |-> strptime_minute(IF i = 1 THEN from_date ELSE to_date,
                                               IF i = 1 THEN from_time ELSE to_time)])

\* s3_service.py get_image_stats: the prefix "ftp_uploads/" covers every stored frame
get_image_stats(stored) ==
    LET stats(counted) ==
            LET date_counts(d) == Cardinality({ f \in counted : f[2].date = d })
                first_date == CHOOSE f \in counted :
                                  \A g \in counted : DtLeq(f[2].datetime, g[2].datetime)
                last_date == CHOOSE f \in counted :
                                 \A g \in counted : DtLeq(g[2].datetime, f[2].datetime)
                result(sorted_dates) ==
                    LET RECURSIVE sum(_)
                        sum(i) == IF i = 0 THEN 0 ELSE sorted_dates[i][2] + sum(i - 1)
                    IN [dates |-> [i \in 1..Len(sorted_dates) |-> sorted_dates[i][1]],
                        counts |-> [i \in 1..Len(sorted_dates) |-> sorted_dates[i][2]],
                        first_date |-> IF counted = {} THEN None
                                       ELSE FormatDate(first_date[2].datetime),
                        last_date |-> IF counted = {} THEN None
                                      ELSE FormatDate(last_date[2].datetime),
                        total_images |-> sum(Len(sorted_dates)),
                        total_days |-> Len(sorted_dates)]
            IN result(sorted({ <<d, date_counts(d)>> : d \in { f[2].date : f \in counted } }))
    IN stats(PagedFrames(stored, <<>>))

MaxStored == 2      \* frames stored when the listings are called

\* The frames a listing starts from: up to MaxStored of nine uploads (a frame of 23:38:11 and one of
\* the last minute of 26 Jan 2026, one of midnight of the 27th, one of the 26th filed in
\* the folder of the 27th, one filed without folders, one of the year 999, one with a
\* blank in the day, one with a lowercase prefix, one with a short name), a query of
\* the viewer, and a C library that pads the year or does not.
InitList ==
    LET ts(y, m, d, H, M, S) == Pad4(y) \o Pad2(m) \o Pad2(d) \o Pad2(H) \o Pad2(M) \o Pad2(S)
        folder(y, m, d) == <<Str(y), Pad2(m), Pad2(d)>>
        name(t) == Reolink_00_ \o t \o DotJpg
        lower == <<"r", "e", "o", "l", "i", "n", "k", "_", "0", "0", "_">>
        uploads ==
            { folder(2026, 1, 26) \o <<name(ts(2026, 1, 26, 23, 38, 11))>>,
              folder(2026, 1, 26) \o <<name(ts(2026, 1, 26, 23, 59, 30))>>,
              folder(2026, 1, 27) \o <<name(ts(2026, 1, 27, 0, 0, 0))>>,
              folder(2026, 1, 27) \o <<name(ts(2026, 1, 26, 23, 59, 0))>>,
              <<name(ts(2026, 1, 26, 12, 0, 0))>>,
              folder(999, 1, 5) \o <<name(ts(999, 1, 5, 12, 0, 0))>>,
              folder(2026, 1, 5) \o <<name(Pad4(2026) \o Pad2(1) \o <<" ", "5">> \o Pad2(12) \o Pad2(0) \o Pad2(0))>>,
              folder(2026, 1, 26) \o <<lower \o ts(2026, 1, 26, 12, 30, 0) \o DotJpg>>,
              folder(2026, 1, 26) \o <<name(Pad4(2026) \o Pad2(1) \o Pad2(26))>> }
        dates == { Pad4(2026) \o <<"-">> \o Pad2(1) \o <<"-">> \o Pad2(d) : d \in {5, 26, 27} }
        times == { << <<"0", "0", ":", "0", "0">>, <<"2", "3", ":", "5", "9">> >>,
                   << <<"2", "3", ":", "3", "8">>, <<"2", "3", ":", "5", "9">> >>,
                   << <<"1", "2", ":", "0", "0">>, <<"0", "0", ":", "0", "0">> >> }
    IN /\ config \in {DefaultConfig, [DefaultConfig EXCEPT !.year_padded = TRUE]}
       /\ proc = [p \in {} |-> 0]
       /\ files = <<>>
       /\ dirs = {}
       /\ faults = 0
       /\ analysis = Idle
       /\ fn_ret = Idle
       /\ \E stored \in { s \in SUBSET uploads : Cardinality(s) <= MaxStored } :
             frames = [k \in stored |-> TRUE]
       /\ \E from_date \in dates, to_date \in dates, t \in times :
              fn_args = [fn |-> "list", from_date |-> from_date, to_date |-> to_date,
                         from_time |-> t[1], to_time |-> t[2]]

\* the four listings applied to the stored frames: the two range listings with the
\* query, list_images_by_date with its first date
ApplyListings ==
    /\ fn_args.fn = "list"
    /\ fn_ret = Idle
    /\ fn_ret' = [fn |-> "list",
                  get_images_in_range |->
                      get_images_in_range(DOMAIN frames, fn_args.from_date, fn_args.to_date,
                                          fn_args.from_time, fn_args.to_time),
                  list_images_by_range |->
                      list_images_by_range(DOMAIN frames, fn_args.from_date, fn_args.to_date,
                                           fn_args.from_time, fn_args.to_time),
                  list_images_by_date |-> list_images_by_date(DOMAIN frames, fn_args.from_date),
                  get_image_stats |-> get_image_stats(DOMAIN frames)]
    /\ UNCHANGED <<proc, files, dirs, frames, faults, analysis, fn_args, config>>

SpecList == InitList /\ [][ApplyListings]_vars

(***************************************************************************)
(* C21  Time-range listing (get_images_in_range, list_images_by_range):    *)
(* the result holds exactly the stored frames whose file name parses and   *)
(* whose capture date-time dt satisfies start <= dt <= end, each exactly   *)
(* once, by ascending timestamp; an empty or inverted range gives the      *)
(* empty list.                                                             *)
(***************************************************************************)
C21_RangeListing ==
    (fn_ret # Idle /\ fn_ret.fn = "list") =>
        LET start == strptime_minute(fn_args.from_date, fn_args.from_time)
            end == strptime_minute(fn_args.to_date, fn_args.to_time)
            within(dt) == DtLeq(start, dt) /\ DtLeq(dt, end)
            local == { k \in DOMAIN frames :
                         /\ parse_ftp_filename(k[Len(k)]) # None
                         /\ within(parse_ftp_filename(k[Len(k)]).datetime) }
            bucket == { k \in DOMAIN frames :
                          /\ parse_image_filename(k[Len(k)]) # None
                          /\ within(parse_image_filename(k[Len(k)]).datetime) }
            Exactly(listed, expected) ==
                /\ { listed[i] : i \in DOMAIN listed } = expected
                /\ \A i, j \in DOMAIN listed : listed[i] = listed[j] => i = j
            Ascending(result) ==
                \A i, j \in DOMAIN result :
                    i < j => StrLeq(result[i].timestamp, result[j].timestamp)
            images == fn_ret.get_images_in_range
            objects == fn_ret.list_images_by_range
        IN /\ Exactly([i \in DOMAIN images |-> images[i].filepath], local)
           /\ Exactly([i \in DOMAIN objects |-> objects[i].key], bucket)
           /\ Ascending(images)
           /\ Ascending(objects)
           /\ ~DtLeq(start, end) => images = <<>> /\ objects = <<>>

(***************************************************************************)
(* C22  There is no mutual exclusion on a cache key: a call whose          *)
(* existence loop found a view file missing decodes the source itself,     *)
(* whatever another call for the same timestamp is doing (it neither waits *)
(* for nor takes the result of a regeneration in flight); so two           *)
(* concurrent calls for the same uncached timestamp can both pass the      *)
(* check before either has written, and then both decode the source and    *)
(* both invoke get_room_views.                                             *)
(***************************************************************************)
C22_NoMutualExclusion ==
    \A p \in Procs :
        LET c == proc[p].call
        IN (c.outcome \in {"running", "returned"} /\ ~c.all_exist
                /\ proc[p].pc \notin {"check", "load"})
               => c.n_imread = 1

\* two calls for one timestamp that both found no view file in their existence loops (so
\* both had passed the check before either wrote), both decoded the frame and both
\* generated the views, without any failure injected
C22_Witness ==
    \E p, q \in Procs :
        /\ p # q
        /\ faults = 0
        /\ proc[p].call.timestamp # <<>>
        /\ proc[p].call.timestamp = proc[q].call.timestamp
        /\ \A x \in {p, q} :
              /\ ~proc[x].call.hit_at_call
              /\ proc[x].call.found = {}
              /\ proc[x].call.n_imread = 1
              /\ proc[x].call.n_get_room_views = 1

(***************************************************************************)
(* The viewer's endpoints that forward to the Lambda API (app/main.py)     *)
(*                                                                         *)
(* fn_args is the request with what the upstream will do with it: answer   *)
(* with a status code (or, invoked through boto3, with a payload without   *)
(* statusCode), time out, or fail otherwise (connection refused, a body    *)
(* that is not JSON, missing credentials).  fn_ret is the payload          *)
(* sent upstream and the status code of the endpoint's own answer.         *)
(***************************************************************************)

\* a payload with views_to_analyze whenever analyze is set, unwarp or not (a faulty
\* variant, to test C23)
process_payload_views_on_analyze(req) ==
    LET truthy(x) == x # None /\ x.value # <<>>
        payload == [input_s3_uri |-> req.s3_uri, unwarp |-> req.unwarp, analyze |-> req.analyze]
        prompt == IF truthy(req.prompt) THEN [prompt |-> req.prompt.value] ELSE <<>>
        model == IF truthy(req.model) THEN [model |-> req.model.value] ELSE <<>>
        views_to_analyze ==
            IF req.analyze
            THEN [views_to_analyze |-> IF truthy(req.views_to_analyze) THEN req.views_to_analyze.value
                                       ELSE <<"N", "S", "E", "W", "B">>]
            ELSE <<>>
    IN views_to_analyze @@ model @@ prompt @@ payload

\* process_image: the payload posted to the Lambda, as the dict of its keys.  An optional
\* field of the request is None or [value |-> its str or list], falsy when None or empty.
process_payload(req) ==
    LET truthy(x) == x # None /\ x.value # <<>>
        payload == [input_s3_uri |-> req.s3_uri, unwarp |-> req.unwarp, analyze |-> req.analyze]
        prompt == IF truthy(req.prompt) THEN [prompt |-> req.prompt.value] ELSE <<>>
        model == IF truthy(req.model) THEN [model |-> req.model.value] ELSE <<>>
        views_to_analyze ==
            IF req.unwarp /\ req.analyze
            THEN [views_to_analyze |-> IF truthy(req.views_to_analyze) THEN req.views_to_analyze.value
                                       ELSE <<"N", "S", "E", "W", "B">>]
            ELSE <<>>
    IN views_to_analyze @@ model @@ prompt @@ payload

\* The status code an endpoint answers with.  The try body returns (FastAPI answers 200)
\* or raises: HTTPException with the upstream's code where the upstream's answer is not
\* the expected one, httpx.TimeoutException, or another exception.  The except clauses
\* follow in the order of the code: the endpoints with "except HTTPException: raise" pass
\* the HTTPException on, in the others "except Exception" takes it, HTTPException being
\* an Exception, and answers 500.
endpoint_status(endpoint, upstream) ==
    LET invoked == endpoint \in {"unwarp_image", "rotate_image"}     \* boto3 lambda invoke
        expected == IF endpoint = "save_prompt" THEN {200, 201} ELSE {200}
        raised == IF upstream.kind = "timeout" THEN [type |-> "TimeoutException"]
                  ELSE IF upstream.kind = "error" THEN [type |-> "Exception"]
                  ELSE IF upstream.kind = "no_status"      \* .get('statusCode', 500)
                       THEN [type |-> "HTTPException", status_code |-> 500]
                  ELSE IF upstream.status_code \notin expected
                       THEN [type |-> "HTTPException", status_code |-> upstream.status_code]
                       ELSE [type |-> "none"]
        passes_on == endpoint \in {"list_prompts", "get_prompt", "get_prompt_version",
                                   "save_prompt", "rotate_image"}
    IN IF raised.type = "none" THEN 200
       ELSE IF raised.type = "TimeoutException" /\ ~invoked THEN 504
       ELSE IF raised.type = "HTTPException" /\ passes_on THEN raised.status_code
       ELSE 500

\* a request to one of the forwarding endpoints and the upstream's behaviour
InitProxy ==
    LET strs == {None, [value |-> <<>>], [value |-> <<"x">>]}
        views == {None, [value |-> <<>>], [value |-> <<"N">>], [value |-> <<"S", "B">>]}
        reqs == [s3_uri : {<<"s", "3", ":", "/", "/", "b", "/", "k">>}, unwarp : BOOLEAN,
                 analyze : BOOLEAN, prompt : strs, views_to_analyze : views, model : strs]
        answers(codes) == { [kind |-> "response", status_code |-> c] : c \in codes }
                          \cup { [kind |-> "timeout"], [kind |-> "error"] }
    IN /\ InitPure
       /\ \E endpoint \in {"get_models", "list_prompts", "get_prompt", "get_prompt_version",
                           "save_prompt", "process_image", "unwarp_image", "rotate_image"} :
             \E req \in (IF endpoint = "process_image" THEN reqs ELSE {None}),
                upstream \in (IF endpoint \in {"unwarp_image", "rotate_image"}
                              THEN answers({200, 404, 500}) \cup {[kind |-> "no_status"]}
                              ELSE answers({200, 201, 404, 500, 503})) :
                fn_args = [fn |-> "forward", endpoint |-> endpoint, req |-> req,
                           upstream |-> upstream]

\* the endpoint handles the request
Forward ==
    /\ fn_args.fn = "forward"
    /\ fn_ret = Idle
    /\ fn_ret' = [fn |-> "forward",
                  payload |-> IF fn_args.endpoint = "process_image"
                              THEN process_payload(fn_args.req) ELSE None,
                  status_code |-> endpoint_status(fn_args.endpoint, fn_args.upstream)]
    /\ UNCHANGED <<proc, files, dirs, frames, faults, analysis, fn_args, config>>

SpecProxy == InitProxy /\ [][Forward]_vars

(***************************************************************************)
(* C23  process_image includes views_to_analyze in the payload sent to the *)
(* Lambda if and only if both unwarp and analyze are true, and then it is  *)
(* the requested list, or all five codes N, S, E, W, B when the request    *)
(* gives none or an empty list; prompt and model are included only when    *)
(* non-empty.                                                              *)
(***************************************************************************)
C23_ProcessPayload ==
    (fn_ret # Idle /\ fn_ret.fn = "forward" /\ fn_args.endpoint = "process_image") =>
        LET req == fn_args.req
            payload == fn_ret.payload
            given(x) == x # None /\ x.value # <<>>
        IN /\ "views_to_analyze" \in DOMAIN payload <=> (req.unwarp /\ req.analyze)
           /\ "views_to_analyze" \in DOMAIN payload =>
                 payload.views_to_analyze =
                     IF given(req.views_to_analyze) THEN req.views_to_analyze.value
                     ELSE <<"N", "S", "E", "W", "B">>
           /\ "prompt" \in DOMAIN payload <=> given(req.prompt)
           /\ "prompt" \in DOMAIN payload => payload.prompt = req.prompt.value
           /\ "model" \in DOMAIN payload <=> given(req.model)
           /\ "model" \in DOMAIN payload => payload.model = req.model.value

\* a request with unwarp and analyze, no list of views and an empty prompt was sent with
\* the five codes and without a prompt
C23_Witness ==
    /\ fn_ret # Idle /\ fn_ret.fn = "forward" /\ fn_args.endpoint = "process_image"
    /\ fn_args.req.unwarp /\ fn_args.req.analyze
    /\ fn_args.req.views_to_analyze = None
    /\ fn_ret.payload.views_to_analyze = <<"N", "S", "E", "W", "B">>
    /\ fn_args.req.prompt = [value |-> <<>>]
    /\ "prompt" \notin DOMAIN fn_ret.payload

(***************************************************************************)
(* C24  Every endpoint that forwards to the Lambda/API (get_models,        *)
(* process_image, unwarp_image, rotate_image, the prompt endpoints)        *)
(* answers an upstream response that is not a success with an HTTP error   *)
(* carrying that same upstream status code, not a generic 500.             *)
(***************************************************************************)
C24_UpstreamStatusPassedOn ==
    (fn_ret # Idle /\ fn_ret.fn = "forward"
        /\ fn_args.upstream.kind = "response"
        /\ fn_args.upstream.status_code \notin {200, 201})
        => fn_ret.status_code = fn_args.upstream.status_code

(***************************************************************************)
(* C25  unwarp_image changes the cache storage only by writing view files  *)
(* on a successful regeneration: a call that fails (invalid file name,     *)
(* undecodable source, generation error) leaves the unwarped directory     *)
(* tree exactly as it was, creating no directory and no file.  Hence,      *)
(* when every call made so far has failed before saving a view (all        *)
(* handlers have answered, none with a result, and no view file exists),   *)
(* the tree is the one the service started with.                           *)
(***************************************************************************)
C25_FailedCallLeavesTree ==
    (/\ \A p \in Procs : proc[p].pc \in {"idle", "done"} /\ proc[p].results = <<>>
     /\ \E p \in Procs : proc[p].call.outcome = "raised"
     /\ files = <<>>)
        => dirs = {unwarped_dir, data_dir \o << <<"r", "e", "s", "u", "l", "t", "s">> >>}

(***************************************************************************)
(* C26  In unwarp_image, the five paths written on regeneration are        *)
(* exactly the five paths tested by the existence check: each view         *)
(* returned by get_room_views is saved under the code (first letter of its *)
(* name) whose VIEW_MAP entry is that view's name, no two views share a    *)
(* code, and no code in VIEW_MAP is left without a written file.  Stated   *)
(* of every call that has regenerated and returned.                        *)
(***************************************************************************)
C26_WrittenPathsAreCheckedPaths ==
    \A c \in Calls :
        (c.outcome = "returned" /\ c.n_get_room_views = 1) =>
            LET code(i) == Upper(c.views[i].name[1])
                tested == { get_unwarped_path(c.timestamp, d) : d \in ViewCodes }
            IN /\ \A i \in DOMAIN c.views :
                     \E e \in DOMAIN VIEW_MAP :
                        VIEW_MAP[e].key = code(i) /\ VIEW_MAP[e].value = c.views[i].name
               /\ \A i, j \in DOMAIN c.views : code(i) = code(j) => i = j
               /\ { c.unwarped_paths[d] : d \in c.written } = tested
               /\ \A d \in ViewCodes : d \in c.written /\ exists(c.unwarped_paths[d])

(***************************************************************************)
(* C27  With the default times (00:00 to 23:59), a range listing returns   *)
(* every stored frame whose capture date lies between from_date and        *)
(* to_date inclusive, including the frames captured in the last minute of  *)
(* to_date; consequently list_images_by_range(d, d) returns the same       *)
(* frames as list_images_by_date(d).                                       *)
(***************************************************************************)
C27_DefaultTimesCoverWholeDays ==
    (/\ fn_ret # Idle /\ fn_ret.fn = "list"
     /\ fn_args.from_time = <<"0", "0", ":", "0", "0">>
     /\ fn_args.to_time = <<"2", "3", ":", "5", "9">>) =>
        LET first == strptime_minute(fn_args.from_date, fn_args.from_time)
            last == [strptime_minute(fn_args.to_date, fn_args.to_time) EXCEPT !.second = 59]
            on_days(dt) == DtLeq(first, dt) /\ DtLeq(dt, last)
            images == fn_ret.get_images_in_range
            objects == fn_ret.list_images_by_range
        IN /\ \A k \in DOMAIN frames :
                 LET parsed == parse_image_filename(k[Len(k)])
                 IN (parsed # None /\ on_days(parsed.datetime))
                        => \E i \in DOMAIN objects : objects[i].key = k
           /\ \A k \in DOMAIN frames :
                 LET parsed == parse_ftp_filename(k[Len(k)])
                 IN (parsed # None /\ on_days(parsed.datetime))
                        => \E i \in DOMAIN images : images[i].filepath = k
           /\ fn_args.from_date = fn_args.to_date
                 => objects = fn_ret.list_images_by_date

(***************************************************************************)
(* C30  For any bucket contents, get_image_stats returns dates in strictly *)
(* ascending order with one positive count per date, total_images equal to *)
(* the sum of counts, total_days equal to the number of dates, and         *)
(* first_date and last_date equal to the first and last entry of dates     *)
(* (both null exactly when no frame parses).  The order of dates is taken  *)
(* as the order of the date strings.                                       *)
(***************************************************************************)
C30_StatsConsistent ==
    (fn_ret # Idle /\ fn_ret.fn = "list") =>
        LET stats == fn_ret.get_image_stats
            n == Len(stats.dates)
            RECURSIVE total(_)
            total(i) == IF i = 0 THEN 0 ELSE stats.counts[i] + total(i - 1)
            parses == \E k \in DOMAIN frames : parse_image_filename(k[Len(k)]) # None
        IN /\ \A i \in 1..n, j \in 1..n :
                 i < j => stats.dates[i] # stats.dates[j] /\ StrLeq(stats.dates[i], stats.dates[j])
           /\ Len(stats.counts) = n
           /\ \A i \in 1..n : stats.counts[i] > 0
           /\ stats.total_images = total(n)
           /\ stats.total_days = n
           /\ parses => stats.first_date = stats.dates[1] /\ stats.last_date = stats.dates[n]
           /\ ~parses <=> stats.first_date = None
           /\ ~parses <=> stats.last_date = None

(***************************************************************************)
(* The capture session (camera_capture.py main, create_session,            *)
(* capture_and_process; session_viewer.py get_session_data)                *)
(*                                                                         *)
(* In the session's specification proc[1] is main: its position in the     *)
(* capture loop, the wall clock in seconds and the snapshots taken; files  *)
(* is the session directory, a file being named by the timestamp in its    *)
(* name (the clock second strftime('%Y%m%d_%H%M%S') was called in, 0 for   *)
(* the metadata file) and the rest of the name; fn_args are the command    *)
(* line arguments and fn_ret is what main ended with.                      *)
(***************************************************************************)
MaxClock == 3       \* seconds of wall clock the session is followed for
MaxSnaps == 3       \* snapshots the camera gives in a session

session_metadata == [timestamp |-> 0, name |-> "session_metadata.json"]

\* session_viewer.py get_session_data: the captures of the session, one per timestamp of
\* a *_fisheye.jpg file (captures is a dict keyed by the timestamp)
captures == { f.timestamp : f \in { g \in DOMAIN files : g.name = "_fisheye.jpg" } }

\* main has parsed its arguments, connected to the camera and created the session
InitSession ==
    /\ config = DefaultConfig
    /\ proc = << [pc |-> "capture", now |-> 1, timestamp |-> 0, snaps |-> 0] >>
    /\ files = (session_metadata :>
                   [session_id |-> 1, start_time |-> 1, end_time |-> None,
                    place |-> None, capture_count |-> 0])
    /\ dirs = {<<"session_1">>}
    /\ frames = <<>>
    /\ faults = 0
    /\ analysis = Idle
    /\ \E once \in BOOLEAN, frequency \in {0, 1}, views \in BOOLEAN :
          fn_args = [fn |-> "main", once |-> once, frequency |-> frequency, views |-> views]
    /\ fn_ret = Idle

\* capture_and_process up to the saved fisheye: the timestamp is taken, cam.get_snap
\* gives no image and the call returns None, or the snapshot is saved
Snap ==
    LET m == proc[1]
    IN /\ m.pc = "capture"
       /\ \E pil_image \in BOOLEAN :
             IF ~pil_image
             THEN /\ proc' = <<[m EXCEPT !.pc = "returned", !.timestamp = m.now]>>
                  /\ files' = files
             ELSE /\ m.snaps < MaxSnaps
                  /\ proc' = <<[m EXCEPT !.pc = "views", !.timestamp = m.now, !.snaps = @ + 1]>>
                  /\ files' = ([timestamp |-> m.now, name |-> "_fisheye.jpg"]
                                   :> [snap |-> m.snaps + 1]) @@ files
       /\ UNCHANGED <<dirs, frames, faults, analysis, fn_args, fn_ret, config>>

\* capture_and_process from get_room_views on: the five views are saved, the LLM
\* responses when views are sent, and capture_count is incremented
FinishCapture ==
    LET m == proc[1]
        views == [f \in { [timestamp |-> m.timestamp, name |-> n] :
                            n \in {"_N.jpg", "_E.jpg", "_S.jpg", "_W.jpg", "_B.jpg"}
                                  \cup (IF fn_args.views THEN {"_llm_responses.json"} ELSE {}) }
                     |-> [snap |-> m.snaps]]
        metadata == files[session_metadata]
    IN /\ m.pc = "views"
       /\ files' = (session_metadata :> [metadata EXCEPT !.capture_count = @ + 1])
                       @@ views @@ files
       /\ proc' = <<[m EXCEPT !.pc = "returned"]>>
       /\ UNCHANGED <<dirs, frames, faults, analysis, fn_args, fn_ret, config>>

\* an exception leaves capture_and_process after the fisheye was saved (get_room_views or
\* save_image raises, the metadata cannot be read): main has no handler for it
CaptureRaises ==
    LET m == proc[1]
    IN /\ m.pc = "views"
       /\ faults < MaxFaults
       /\ faults' = faults + 1
       /\ proc' = <<[m EXCEPT !.pc = "done"]>>
       /\ fn_ret' = [fn |-> "main", raised |-> TRUE]
       /\ UNCHANGED <<files, dirs, frames, analysis, fn_args, config>>

\* the loop after capture_and_process: with --once the end time is written and the loop
\* left, otherwise main goes to sleep
AfterCapture ==
    LET m == proc[1]
        metadata == files[session_metadata]
    IN /\ m.pc = "returned"
       /\ IF fn_args.once
          THEN /\ files' = [files EXCEPT ![session_metadata] =
                               [metadata EXCEPT !.end_time = [value |-> m.now]]]
               /\ proc' = <<[m EXCEPT !.pc = "done"]>>
               /\ fn_ret' = [fn |-> "main", raised |-> FALSE]
          ELSE /\ proc' = <<[m EXCEPT !.pc = "sleep"]>>
               /\ UNCHANGED <<files, fn_ret>>
       /\ UNCHANGED <<dirs, frames, faults, analysis, fn_args, config>>

\* time.sleep(args.frequency): the next capture starts frequency seconds later, or one
\* more (the time the capture took, rounded to seconds)
Sleep ==
    LET m == proc[1]
    IN /\ m.pc = "sleep"
       /\ \E took \in {0, 1} :
             /\ m.now + fn_args.frequency + took <= MaxClock
             /\ proc' = <<[m EXCEPT !.pc = "capture", !.now = @ + fn_args.frequency + took]>>
       /\ UNCHANGED <<files, dirs, frames, faults, analysis, fn_args, fn_ret, config>>

\* KeyboardInterrupt anywhere in the loop: the end time is written and main returns
Interrupt ==
    LET m == proc[1]
        metadata == files[session_metadata]
    IN /\ m.pc \in {"capture", "views", "returned", "sleep"}
       /\ files' = [files EXCEPT ![session_metadata] =
                       [metadata EXCEPT !.end_time = [value |-> m.now]]]
       /\ proc' = <<[m EXCEPT !.pc = "done"]>>
       /\ fn_ret' = [fn |-> "main", raised |-> FALSE]
       /\ UNCHANGED <<dirs, frames, faults, analysis, fn_args, config>>

NextSession ==
    \/ Snap
    \/ FinishCapture
    \/ CaptureRaises
    \/ AfterCapture
    \/ Sleep
    \/ Interrupt

SpecSession == InitSession /\ [][NextSession]_vars

(***************************************************************************)
(* C28  After any sequence of capture_and_process calls in one session,    *)
(* capture_count in the session metadata equals the number of distinct     *)
(* captures stored in the session directory (distinct *_fisheye.jpg        *)
(* timestamps, which is what the session viewer lists); a call whose       *)
(* snapshot fails changes neither the count nor any file.  Stated of the   *)
(* states of the loop in which every call made so far has returned.        *)
(***************************************************************************)
C28_CountIsCapturesStored ==
    proc[1].pc \in {"capture", "returned", "sleep"}
        => files[session_metadata].capture_count = Cardinality(captures)

(***************************************************************************)
(* C29  A session's end_time is null from create_session until its capture *)
(* loop ends, and whenever the capture loop in main has ended (single      *)
(* capture with --once, user interrupt, or an error raised during a        *)
(* capture) end_time has been set in the metadata and no capture is        *)
(* performed after it is set.                                              *)
(***************************************************************************)
C29_EndTimeSetWhenLoopEnds ==
    /\ proc[1].pc # "done" => files[session_metadata].end_time = None
    /\ proc[1].pc = "done" => files[session_metadata].end_time # None

=============================================================================
